---- MODULE Spec2Model ----
(***************************************************************************)
(* AgroHire: booking availability / lifecycle, the price resolvers, the    *)
(* pricing pipeline and its history.                                       *)
(*                                                                         *)
(* Datetimes and dates are small naturals.  Money is an integer number of  *)
(* cents (DecimalField, 2 places); a multiplier is an integer number of    *)
(* hundredths (DecimalField, 2 places).  A computed price is an integer    *)
(* number of 1/10000 units, so that rate * multiplier is exact, as the     *)
(* Decimal product is.  The pricing pipeline mixes Decimals and floats, so *)
(* its numbers carry their type: a Decimal is value * 10^-exp, the only    *)
(* float is 1.0.                                                           *)
(***************************************************************************)
EXTENDS Integers, Sequences, FiniteSets, TLC

VARIABLES
    bookings,       \* the Booking table: pk (index) -> row
    notifications,  \* number of in-app Notification rows
    message,        \* the flash message of the last view that set one
    req,            \* booking_create requests in flight, between check and save
    equipment,      \* the Equipment table: id -> rates and type
    seasonal,       \* the SeasonalPricing table, in storage (pk) order
    today,          \* timezone.now().date()
    call,           \* the last price / seasonal call made and what it gave
    demand,         \* the DemandPricing table, in pk order
    rules,          \* the PricingRule table, in pk order
    history,        \* the PricingHistory table, in pk order
    job,            \* update_pricing_history calls in flight
    payments,       \* the Payment table, in pk order
    predictions,    \* the MaintenancePrediction table, in pk order
    taken,          \* the booking-number suffixes stored for the current day
    gen             \* a generate_booking_number call: its position and result

vars == <<bookings, notifications, message, req, equipment, seasonal, today,
          call, demand, rules, history, job, payments, predictions, taken, gen>>

bookingVars == <<bookings, notifications, message, req>>
sideVars == <<payments, predictions, taken, gen>>
tableVars == <<equipment, seasonal, today, demand, rules, payments, predictions,
               taken, gen>>
historyVars == <<history, job>>
pricingVars == <<equipment, seasonal, today, call, demand, rules, history, job,
                 payments, predictions, taken, gen>>

----------------------------------------------------------------------------
(* Bounds *)

MaxBookings == 2
MaxNotifications == 4
MaxRequests == 2
MaxSeasonal == 2
MaxJobs == 2

Requests == 1..MaxRequests
Jobs == 1..MaxJobs

(* Input domains *)

\* two equipment items: bookings of one must not block the other
EquipmentIds == {1, 2}

\* instants: enough for intervals that touch, overlap and contain an instant
Times == {0, 1, 2}

\* days: before, on and after the boundaries of a window
Dates == {0, 1, 2}

\* request.POST start_date / end_date; the view validates nothing, the
\* enumerated inputs keep start <= end (zero-duration included)
Intervals == {iv \in Times \X Times : iv[1] <= iv[2]}

----------------------------------------------------------------------------
(* bookings/models.py *)

STATUS_CHOICES ==
    {"pending", "confirmed", "in_progress", "completed", "cancelled", "rejected"}

\* pk of an unsaved model instance (self.pk is None)
NoPk == 0

ConflictMessage == "Selected time conflicts with another booking."
CreatedMessage == "Booking created! The owner has been notified."
NotCancellableMessage == "This booking cannot be cancelled."
CancelledMessage == "Booking cancelled."
ConfirmedMessage == "Booking confirmed."
RejectedMessage == "Booking rejected."
NoMessage == ""

\* Booking(user=..., equipment=..., start_date=..., end_date=...): the
\* status field defaults to 'confirmed'
NewBooking(equipment_id, start_date, end_date) ==
    [pk |-> NoPk, equipment |-> equipment_id, start_date |-> start_date,
     end_date |-> end_date, status |-> "confirmed"]

\* the stored row of an instance
Row(self) ==
    [equipment |-> self.equipment, start_date |-> self.start_date,
     end_date |-> self.end_date, status |-> self.status]

\* Booking.objects.get(pk=pk)
Stored(pk) ==
    [pk |-> pk, equipment |-> bookings[pk].equipment,
     start_date |-> bookings[pk].start_date,
     end_date |-> bookings[pk].end_date, status |-> bookings[pk].status]

check_availability_inclusive(self) ==
    LET conflicting_bookings ==
            {pk \in DOMAIN bookings :
                /\ bookings[pk].equipment = self.equipment
                /\ bookings[pk].status \in {"confirmed", "in_progress"}
                /\ bookings[pk].start_date <= self.end_date
                /\ bookings[pk].end_date >= self.start_date}
    IN  (IF self.pk # NoPk THEN conflicting_bookings \ {self.pk}
         ELSE conflicting_bookings) = {}

check_availability_any_status(self) ==
    LET conflicting_bookings ==
            {pk \in DOMAIN bookings :
                /\ bookings[pk].equipment = self.equipment
                /\ bookings[pk].start_date < self.end_date
                /\ bookings[pk].end_date > self.start_date}
    IN  (IF self.pk # NoPk THEN conflicting_bookings \ {self.pk}
         ELSE conflicting_bookings) = {}

check_availability_no_exclude(self) ==
    LET conflicting_bookings ==
            {pk \in DOMAIN bookings :
                /\ bookings[pk].equipment = self.equipment
                /\ bookings[pk].status \in {"confirmed", "in_progress"}
                /\ bookings[pk].start_date < self.end_date
                /\ bookings[pk].end_date > self.start_date}
    IN  conflicting_bookings = {}

\* Booking.check_availability
check_availability(self) ==
    LET conflicting_bookings ==
            {pk \in DOMAIN bookings :
                /\ bookings[pk].equipment = self.equipment
                /\ bookings[pk].status \in {"confirmed", "in_progress"}
                /\ bookings[pk].start_date < self.end_date
                /\ bookings[pk].end_date > self.start_date}
    IN  (IF self.pk # NoPk THEN conflicting_bookings \ {self.pk}
         ELSE conflicting_bookings) = {}

\* self.status = ...; self.save() on a stored booking
SetStatus(pk, status) ==
    bookings' = [bookings EXCEPT ![pk].status = status]

\* Booking.approve
approve(pk) == SetStatus(pk, "confirmed")

\* Booking.reject
reject(pk) == SetStatus(pk, "rejected")

\* a cancel that saves the booking with the status it had
cancel_keeps_status(pk) == SetStatus(pk, bookings[pk].status)

\* Booking.cancel
cancel(pk) == SetStatus(pk, "cancelled")

\* Booking.start_booking
start_booking(pk) ==
    /\ pk \in DOMAIN bookings
    /\ SetStatus(pk, "in_progress")
    /\ UNCHANGED <<notifications, message, req>>
    /\ UNCHANGED pricingVars

\* Booking.complete_booking
complete_booking(pk) ==
    /\ pk \in DOMAIN bookings
    /\ SetStatus(pk, "completed")
    /\ UNCHANGED <<notifications, message, req>>
    /\ UNCHANGED pricingVars

----------------------------------------------------------------------------
(* notifications/utils.py, bookings/views.py *)

\* create_in_app_notification: Notification.objects.create(...)
create_in_app_notification ==
    notifications' = notifications + 1

booking_create_no_gate(equipment_id, start_date, end_date) ==
    LET booking == NewBooking(equipment_id, start_date, end_date) IN
    /\ Len(bookings) < MaxBookings
    /\ notifications < MaxNotifications
    /\ bookings' = Append(bookings, Row(booking))
    /\ create_in_app_notification
    /\ message' = IF check_availability(booking) THEN CreatedMessage
                  ELSE ConflictMessage
    /\ UNCHANGED req
    /\ UNCHANGED pricingVars

\* booking_create (POST), run without interleaving
booking_create(equipment_id, start_date, end_date) ==
    LET booking == NewBooking(equipment_id, start_date, end_date) IN
    IF ~check_availability(booking)
    THEN /\ message' = ConflictMessage
         /\ UNCHANGED <<bookings, notifications, req>>
         /\ UNCHANGED pricingVars
    ELSE /\ Len(bookings) < MaxBookings
         /\ notifications < MaxNotifications
         /\ bookings' = Append(bookings, Row(booking))
         /\ create_in_app_notification
         /\ message' = CreatedMessage
         /\ UNCHANGED req
         /\ UNCHANGED pricingVars

\* booking_cancel
booking_cancel(pk) ==
    /\ pk \in DOMAIN bookings
    /\ IF bookings[pk].status \notin {"pending", "confirmed"}
       THEN /\ message' = NotCancellableMessage
            /\ UNCHANGED <<bookings, notifications>>
       ELSE /\ notifications < MaxNotifications
            /\ cancel(pk)
            /\ create_in_app_notification
            /\ message' = CancelledMessage
    /\ UNCHANGED req
    /\ UNCHANGED pricingVars

\* booking_confirm
booking_confirm(pk) ==
    /\ pk \in DOMAIN bookings
    /\ notifications < MaxNotifications
    /\ approve(pk)
    /\ create_in_app_notification
    /\ message' = ConfirmedMessage
    /\ UNCHANGED req
    /\ UNCHANGED pricingVars

\* booking_reject
booking_reject(pk) ==
    /\ pk \in DOMAIN bookings
    /\ notifications < MaxNotifications
    /\ reject(pk)
    /\ create_in_app_notification
    /\ message' = RejectedMessage
    /\ UNCHANGED req
    /\ UNCHANGED pricingVars

----------------------------------------------------------------------------
(* booking_create under concurrent requests: the availability query and    *)
(* the insert are two database round trips with no transaction around them *)

Idle == [pc |-> "idle"]

Checked(r) == req[r].pc = "checked"

InFlight == Cardinality({r \in Requests : Checked(r)})

\* lines 29-38: build the instance, run check_availability
booking_create_check(r, equipment_id, start_date, end_date) ==
    LET booking == NewBooking(equipment_id, start_date, end_date) IN
    /\ req[r].pc = "idle"
    /\ IF ~check_availability(booking)
       THEN /\ message' = ConflictMessage
            /\ UNCHANGED req
       ELSE /\ Len(bookings) + InFlight < MaxBookings
            /\ req' = [req EXCEPT ![r] = [pc |-> "checked", booking |-> booking]]
            /\ UNCHANGED message
    /\ UNCHANGED <<bookings, notifications>>
    /\ UNCHANGED pricingVars

booking_create_save_recheck(r) ==
    /\ Checked(r)
    /\ IF check_availability(req[r].booking)
       THEN /\ bookings' = Append(bookings, Row(req[r].booking))
            /\ create_in_app_notification
            /\ message' = CreatedMessage
       ELSE /\ message' = ConflictMessage
            /\ UNCHANGED <<bookings, notifications>>
    /\ req' = [req EXCEPT ![r] = Idle]
    /\ UNCHANGED pricingVars

\* lines 40-49: booking.save(), notify the owner
booking_create_save(r) ==
    /\ Checked(r)
    /\ bookings' = Append(bookings, Row(req[r].booking))
    /\ create_in_app_notification
    /\ message' = CreatedMessage
    /\ req' = [req EXCEPT ![r] = Idle]
    /\ UNCHANGED pricingVars

----------------------------------------------------------------------------
(* equipment/models.py, pricing/models.py, pricing/tasks.py *)

\* None in a nullable field
Null == -1

\* Python truth of a nullable Decimal: None and Decimal('0.00') are falsy
Truthy(x) == x # Null /\ x # 0

\* x or y
Or(x, y) == IF Truthy(x) THEN x ELSE y

RATE_TYPES == {"hourly", "daily", "weekly", "monthly"}

\* rate types a caller can pass: the four above and an unrecognized one
RateTypeInputs == RATE_TYPES \cup {"yearly"}

\* Equipment.equipment_type of the equipment items of the model
TypeOf(e) == IF e = 1 THEN 1 ELSE 2

EquipmentTypes == {1, 2}

\* a Decimal with 2 places (cents, or hundredths) as a 1/10000 amount
Exact(x) == x * 100

\* no row: what .first() gives on an empty queryset
NoRule == 0

\* SeasonalPricing.is_active_for_date
is_active_for_date(self, date) ==
    self.start_date <= date /\ date <= self.end_date

\* SeasonalPricing.objects.filter(equipment_type=..., is_active=True,
\*     start_date__lte=date, end_date__gte=date)
SeasonalMatches(equipment_type, date) ==
    {i \in DOMAIN seasonal :
        /\ seasonal[i].equipment_type = equipment_type
        /\ seasonal[i].is_active
        /\ seasonal[i].start_date <= date
        /\ seasonal[i].end_date >= date}

SeasonalFirst_exclusive(equipment_type, date) ==
    LET matches == {i \in DOMAIN seasonal :
                       /\ seasonal[i].equipment_type = equipment_type
                       /\ seasonal[i].is_active
                       /\ seasonal[i].start_date < date
                       /\ seasonal[i].end_date > date}
    IN  IF matches = {} THEN {NoRule}
        ELSE {i \in matches :
                \A j \in matches : seasonal[i].start_date <= seasonal[j].start_date}

\* .first() of that queryset were it ordered by pk, the creation order
SeasonalFirst_by_pk(equipment_type, date) ==
    LET matches == SeasonalMatches(equipment_type, date)
    IN  IF matches = {} THEN {NoRule}
        ELSE {i \in matches : \A j \in matches : i <= j}

\* .first() of that queryset under Meta.ordering = ['start_date']: a row
\* with the least start_date; rows with equal start_date come in an order
\* the database does not fix, so any of them may be the first
SeasonalFirst(equipment_type, date) ==
    LET matches == SeasonalMatches(equipment_type, date)
    IN  IF matches = {} THEN {NoRule}
        ELSE {i \in matches :
                \A j \in matches : seasonal[i].start_date <= seasonal[j].start_date}

\* Equipment.active_seasonal_rule: the rows the property may return
active_seasonal_rule(self) == SeasonalFirst(self.equipment_type, today)

get_current_price_unknown_scaled(self, rule, rate_type) ==
    IF rule = NoRule
    THEN [outcome |-> "returned",
          value |->
            IF rate_type = "hourly" THEN Exact(self.hourly_rate)
            ELSE IF rate_type = "weekly"
                 THEN Exact(Or(self.weekly_rate, self.daily_rate * 7))
            ELSE IF rate_type = "monthly"
                 THEN Exact(Or(self.monthly_rate, self.daily_rate * 30))
            ELSE Exact(self.daily_rate)]
    ELSE [outcome |-> "returned",
          value |->
            IF rate_type = "hourly"
            THEN Or(seasonal[rule].fixed_hourly_rate, self.hourly_rate)
                     * seasonal[rule].hourly_multiplier
            ELSE IF rate_type = "weekly"
            THEN Or(self.weekly_rate, self.daily_rate * 7)
                     * seasonal[rule].daily_multiplier
            ELSE IF rate_type = "monthly"
            THEN Or(self.monthly_rate, self.daily_rate * 30)
                     * seasonal[rule].daily_multiplier
            ELSE Or(seasonal[rule].fixed_daily_rate, self.daily_rate)
                     * seasonal[rule].daily_multiplier]

\* Equipment.get_current_price, given the row active_seasonal_rule returned
get_current_price(self, rule, rate_type) ==
    IF rule = NoRule
    THEN [outcome |-> "returned",
          value |->
            IF rate_type = "hourly" THEN Exact(self.hourly_rate)
            ELSE IF rate_type = "weekly"
                 THEN Exact(Or(self.weekly_rate, self.daily_rate * 7))
            ELSE IF rate_type = "monthly"
                 THEN Exact(Or(self.monthly_rate, self.daily_rate * 30))
            ELSE Exact(self.daily_rate)]
    ELSE [outcome |-> "returned",
          value |->
            IF rate_type = "hourly"
            THEN Or(seasonal[rule].fixed_hourly_rate, self.hourly_rate)
                     * seasonal[rule].hourly_multiplier
            ELSE IF rate_type = "daily"
            THEN Or(seasonal[rule].fixed_daily_rate, self.daily_rate)
                     * seasonal[rule].daily_multiplier
            ELSE IF rate_type = "weekly"
            THEN Or(self.weekly_rate, self.daily_rate * 7)
                     * seasonal[rule].daily_multiplier
            ELSE IF rate_type = "monthly"
            THEN Or(self.monthly_rate, self.daily_rate * 30)
                     * seasonal[rule].daily_multiplier
            ELSE Exact(self.daily_rate)]

\* PricingRule.calculate_rate
calculate_rate(self, equip, base_rate_type) ==
    [outcome |-> "returned",
     value |->
        IF base_rate_type = "hourly"
        THEN IF Truthy(self.fixed_hourly_rate)
             THEN Exact(self.fixed_hourly_rate)
             ELSE equip.hourly_rate * self.hourly_multiplier
        ELSE IF base_rate_type = "daily"
        THEN IF Truthy(self.fixed_daily_rate)
             THEN Exact(self.fixed_daily_rate)
             ELSE equip.daily_rate * self.daily_multiplier
        ELSE IF base_rate_type = "weekly"
        THEN IF Truthy(self.fixed_weekly_rate)
             THEN Exact(self.fixed_weekly_rate)
             ELSE Or(equip.weekly_rate, equip.daily_rate * 7)
                      * self.weekly_multiplier
        ELSE IF base_rate_type = "monthly"
        THEN IF Truthy(self.fixed_monthly_rate)
             THEN Exact(self.fixed_monthly_rate)
             ELSE Or(equip.monthly_rate, equip.daily_rate * 30)
                      * self.monthly_multiplier
        ELSE Exact(equip.daily_rate)]

\* calculate_seasonal_multiplier, given the row .first() returned: the
\* row's Decimal daily_multiplier, or the float 1.0
calculate_seasonal_multiplier(rule) ==
    IF rule # NoRule
    THEN [type |-> "Decimal", value |-> seasonal[rule].daily_multiplier]
    ELSE [type |-> "float", value |-> 100]

NoCall == [fn |-> "none"]

\* an update_pricing_history call that has not started or has returned
IdleJob == [pc |-> "idle"]

\* a generate_booking_number call that has not started
IdleGen == [pc |-> "idle"]

\* no Payment or MaintenancePrediction rows, no booking number stored
SideIdle ==
    /\ payments = <<>>
    /\ predictions = <<>>
    /\ taken = {}
    /\ gen = IdleGen

\* no DemandPricing, PricingRule or PricingHistory rows, no call in flight
PipelineIdle ==
    /\ demand = <<>>
    /\ rules = <<>>
    /\ history = <<>>
    /\ job = [j \in Jobs |-> IdleJob]
    /\ SideIdle

(* the calls, as steps that leave their result in call; a behaviour makes  *)
(* one call on the configuration it started from                           *)

GetCurrentPrice(e, rate_type) ==
    /\ call = NoCall
    /\ \E rule \in active_seasonal_rule(equipment[e]) :
          call' = [fn |-> "get_current_price", self |-> equipment[e],
                   rate_type |-> rate_type, rule |-> rule,
                   result |-> get_current_price(equipment[e], rule, rate_type)]
    /\ UNCHANGED tableVars
    /\ UNCHANGED historyVars
    /\ UNCHANGED bookingVars

CalculateRate(rule, e, base_rate_type) ==
    /\ call = NoCall
    /\ call' = [fn |-> "calculate_rate", self |-> equipment[e],
                rate_type |-> base_rate_type, rule |-> rule,
                result |-> calculate_rate(rule, equipment[e], base_rate_type)]
    /\ UNCHANGED tableVars
    /\ UNCHANGED historyVars
    /\ UNCHANGED bookingVars

ActiveSeasonalRule(e) ==
    /\ call = NoCall
    /\ \E rule \in active_seasonal_rule(equipment[e]) :
          call' = [fn |-> "active_seasonal_rule",
                   equipment_type |-> equipment[e].equipment_type,
                   date |-> today, rule |-> rule]
    /\ UNCHANGED tableVars
    /\ UNCHANGED historyVars
    /\ UNCHANGED bookingVars

CalculateSeasonalMultiplier(e, date) ==
    /\ call = NoCall
    /\ \E rule \in SeasonalFirst(equipment[e].equipment_type, date) :
          call' = [fn |-> "calculate_seasonal_multiplier",
                   equipment_type |-> equipment[e].equipment_type,
                   date |-> date, rule |-> rule,
                   result |-> calculate_seasonal_multiplier(rule)]
    /\ UNCHANGED tableVars
    /\ UNCHANGED historyVars
    /\ UNCHANGED bookingVars

----------------------------------------------------------------------------
(* Specification of the price resolvers: the tables hold a configuration   *)
(* drawn from bounded sets, the steps are the calls                        *)

EquipmentRow(e, weekly_rate, monthly_rate) ==
    [equipment_type |-> TypeOf(e), hourly_rate |-> 700, daily_rate |-> 5000,
     weekly_rate |-> weekly_rate, monthly_rate |-> monthly_rate,
     is_active |-> TRUE]

DefaultEquipment == [e \in EquipmentIds |-> EquipmentRow(e, Null, Null)]

\* weekly_rate / monthly_rate: unset, set to 0.00, set to a positive amount
WeeklyRates == {Null, 0, 30000}
MonthlyRates == {Null, 0, 120000}

EquipmentTables ==
    {[e \in EquipmentIds |-> EquipmentRow(e, w[e], m[e])] :
        w \in [EquipmentIds -> WeeklyRates], m \in [EquipmentIds -> MonthlyRates]}

\* rows for the rate computations: one window over all dates
SeasonalRateRows ==
    [equipment_type : EquipmentTypes, start_date : {0}, end_date : {2},
     is_active : BOOLEAN, hourly_multiplier : {150}, daily_multiplier : {100, 125},
     fixed_hourly_rate : {Null, 600}, fixed_daily_rate : {Null, 4000}]

\* rows for the lookups: every window, one multiplier
SeasonalLookupRows ==
    [equipment_type : EquipmentTypes, start_date : Dates, end_date : Dates,
     is_active : BOOLEAN, hourly_multiplier : {100}, daily_multiplier : {125},
     fixed_hourly_rate : {Null}, fixed_daily_rate : {Null}]

SeasonalLookupTables ==
    UNION {[1..n -> {row \in SeasonalLookupRows : row.start_date <= row.end_date}] :
              n \in 0..MaxSeasonal}

\* PricingRule rows passed to calculate_rate
PricingRuleRows ==
    {[hourly_multiplier |-> m, daily_multiplier |-> m, weekly_multiplier |-> m,
      monthly_multiplier |-> m, fixed_hourly_rate |-> f, fixed_daily_rate |-> f,
      fixed_weekly_rate |-> f, fixed_monthly_rate |-> f] :
        m \in {100, 150}, f \in {Null, 4000}}

BookingIdle ==
    /\ bookings = <<>>
    /\ notifications = 0
    /\ message = NoMessage
    /\ req = [r \in Requests |-> Idle]

InitPrice ==
    /\ BookingIdle
    /\ PipelineIdle
    /\ today = 1
    /\ call = NoCall
    /\ \/ /\ equipment \in EquipmentTables
          /\ seasonal \in {<<>>} \cup {<<row>> : row \in SeasonalRateRows}
       \/ /\ equipment = DefaultEquipment
          /\ seasonal \in SeasonalLookupTables

NextPrice ==
    \/ \E e \in EquipmentIds, rate_type \in RateTypeInputs :
          GetCurrentPrice(e, rate_type)
    \/ \E rule \in PricingRuleRows, e \in EquipmentIds,
          base_rate_type \in RateTypeInputs :
          CalculateRate(rule, e, base_rate_type)
    \/ \E e \in EquipmentIds : ActiveSeasonalRule(e)
    \/ \E e \in EquipmentIds, date \in Dates : CalculateSeasonalMultiplier(e, date)

SpecPrice == InitPrice /\ [][NextPrice]_vars

----------------------------------------------------------------------------
(* Specifications of the booking side *)

PricingIdle ==
    /\ equipment = DefaultEquipment
    /\ seasonal = <<>>
    /\ today = 1
    /\ call = NoCall
    /\ PipelineIdle

Init ==
    /\ BookingIdle
    /\ PricingIdle

Next ==
    \/ \E e \in EquipmentIds, iv \in Intervals : booking_create(e, iv[1], iv[2])
    \/ \E pk \in 1..MaxBookings : booking_cancel(pk)
    \/ \E pk \in 1..MaxBookings : booking_confirm(pk)
    \/ \E pk \in 1..MaxBookings : booking_reject(pk)
    \/ \E pk \in 1..MaxBookings : start_booking(pk)
    \/ \E pk \in 1..MaxBookings : complete_booking(pk)

Spec == Init /\ [][Next]_vars

NextRace ==
    \/ \E r \in Requests, e \in EquipmentIds, iv \in Intervals :
          booking_create_check(r, e, iv[1], iv[2])
    \/ \E r \in Requests : booking_create_save(r)
    \/ \E pk \in 1..MaxBookings : booking_cancel(pk)

SpecRace == Init /\ [][NextRace]_vars

(* The availability resolver on its own: the Booking table holds rows      *)
(* drawn from bounded sets, in any status, and a behaviour makes one       *)
(* request or one call on it                                               *)

\* stored intervals: two that touch and one that covers both
StoredIntervals == {<<0, 1>>, <<1, 2>>, <<0, 2>>}

\* stored rows: a confirmed or in_progress booking on any of the stored
\* intervals, a booking of any other status on the one that covers both
BookingRows ==
    {row \in [equipment : EquipmentIds, start_date : Times, end_date : Times,
              status : STATUS_CHOICES] :
        /\ <<row.start_date, row.end_date>> \in StoredIntervals
        /\ row.status \in {"confirmed", "in_progress"}
              \/ <<row.start_date, row.end_date>> = <<0, 2>>}

BookingTables == UNION {[1..n -> BookingRows] : n \in 0..MaxBookings}

\* the instances check_availability is called on: an unsaved booking of
\* any equipment, or a stored booking whose dates were changed in memory
Proposals ==
    {NewBooking(e, iv[1], iv[2]) : e \in EquipmentIds, iv \in Intervals}
        \cup {[Stored(pk) EXCEPT !.start_date = iv[1], !.end_date = iv[2]] :
                 pk \in DOMAIN bookings, iv \in Intervals}

\* booking.check_availability()
CheckAvailability(self) ==
    /\ call' = [fn |-> "check_availability", self |-> self,
                result |-> check_availability(self)]
    /\ UNCHANGED tableVars
    /\ UNCHANGED historyVars
    /\ UNCHANGED bookingVars

Fresh == call = NoCall /\ message = NoMessage

InitAvail ==
    /\ bookings \in BookingTables
    /\ notifications = 0
    /\ message = NoMessage
    /\ req = [r \in Requests |-> Idle]
    /\ PricingIdle

NextAvail ==
    \/ /\ Fresh
       /\ \E e \in EquipmentIds, iv \in Intervals : booking_create(e, iv[1], iv[2])
    \/ /\ Fresh
       /\ \E self \in Proposals : CheckAvailability(self)

SpecAvail == InitAvail /\ [][NextAvail]_vars

(* Specification of the release of a slot: the table holds requested,     *)
(* accepted or running bookings, the steps cancel, reject and create      *)

\* stored rows of equipment 1 that can still be cancelled or rejected
ReleaseRows ==
    {row \in BookingRows :
        /\ row.equipment = 1
        /\ row.status \in {"pending", "confirmed", "in_progress"}}

\* tables of one stored booking
ReleaseTables == {<<row>> : row \in ReleaseRows}

InitRelease ==
    /\ bookings \in ReleaseTables
    /\ notifications = 0
    /\ message = NoMessage
    /\ req = [r \in Requests |-> Idle]
    /\ PricingIdle

NextRelease ==
    \/ \E pk \in 1..MaxBookings : booking_cancel(pk)
    \/ \E pk \in 1..MaxBookings : booking_reject(pk)
    \/ \E e \in EquipmentIds, iv \in Intervals : booking_create(e, iv[1], iv[2])

SpecRelease == InitRelease /\ [][NextRelease]_vars

----------------------------------------------------------------------------
(* pricing/tasks.py, pricing/models.py: the pricing pipeline *)

\* a date compared with a DateTimeField is the datetime of its midnight;
\* datetimes are counted in half days
Midnight(date) == 2 * date

\* timedelta(days=7) in calculate_demand_multiplier
LookBackDays == 7

\* numbers of the pipeline: a Decimal value * 10^-exp, kept with no
\* trailing zero so that equal numbers are equal records, or the float 1.0
RECURSIVE Dec(_, _)
Dec(value, exp) ==
    IF exp > 0 /\ value % 10 = 0 THEN Dec(value \div 10, exp - 1)
    ELSE [type |-> "Decimal", value |-> value, exp |-> exp]
FloatOne == [type |-> "float", value |-> 1, exp |-> 0]
TypeError == [type |-> "TypeError", value |-> 0, exp |-> 0]

\* a * b: Decimal * Decimal is exact, float * float is a float, and a
\* Decimal with a float raises TypeError, which an expression passes on
Mul(a, b) ==
    IF a.type = "TypeError" \/ b.type = "TypeError" THEN TypeError
    ELSE IF a.type # b.type THEN TypeError
    ELSE IF a.type = "float" THEN FloatOne
    ELSE Dec(a.value * b.value, a.exp + b.exp)

\* Booking.objects.filter(equipment__equipment_type=..., start_date__gte=
\*     date - timedelta(days), start_date__lte=date,
\*     status__in=['confirmed', 'in_progress']).count()
BookingCount(equipment_type, date, days) ==
    Cardinality({pk \in DOMAIN bookings :
        /\ equipment[bookings[pk].equipment].equipment_type = equipment_type
        /\ bookings[pk].start_date >= Midnight(date - days)
        /\ bookings[pk].start_date <= Midnight(date)
        /\ bookings[pk].status \in {"confirmed", "in_progress"}})

\* DemandPricing.objects.filter(equipment_type=..., is_active=True).first():
\* the model has no ordering, so first() orders by pk
DemandFirst(equipment_type) ==
    LET matches == {i \in DOMAIN demand :
                       /\ demand[i].equipment_type = equipment_type
                       /\ demand[i].is_active}
    IN  IF matches = {} THEN NoRule
        ELSE CHOOSE i \in matches : \A j \in matches : i <= j

calculate_demand_multiplier_strict_high(equip, date) ==
    LET booking_count == BookingCount(equip.equipment_type, date, LookBackDays)
        demand_pricing == DemandFirst(equip.equipment_type)
    IN  IF demand_pricing # NoRule
        THEN IF booking_count <= demand[demand_pricing].low_demand_threshold
             THEN Dec(demand[demand_pricing].low_demand_multiplier, 2)
             ELSE IF booking_count > demand[demand_pricing].high_demand_threshold
             THEN Dec(demand[demand_pricing].high_demand_multiplier, 2)
             ELSE Dec(demand[demand_pricing].normal_demand_multiplier, 2)
        ELSE FloatOne

\* calculate_demand_multiplier
calculate_demand_multiplier(equip, date) ==
    LET booking_count == BookingCount(equip.equipment_type, date, LookBackDays)
        demand_pricing == DemandFirst(equip.equipment_type)
    IN  IF demand_pricing # NoRule
        THEN IF booking_count <= demand[demand_pricing].low_demand_threshold
             THEN Dec(demand[demand_pricing].low_demand_multiplier, 2)
             ELSE IF booking_count >= demand[demand_pricing].high_demand_threshold
             THEN Dec(demand[demand_pricing].high_demand_multiplier, 2)
             ELSE Dec(demand[demand_pricing].normal_demand_multiplier, 2)
        ELSE FloatOne

\* DemandPricing.calculate_demand_level
calculate_demand_level(self, date) ==
    LET booking_count ==
            BookingCount(self.equipment_type, date, self.demand_calculation_days)
    IN  IF booking_count <= self.low_demand_threshold THEN "low"
        ELSE IF booking_count >= self.high_demand_threshold THEN "high"
        ELSE "normal"

\* DemandPricing.get_multiplier
get_multiplier(self, demand_level) ==
    IF demand_level = "low" THEN Dec(self.low_demand_multiplier, 2)
    ELSE IF demand_level = "high" THEN Dec(self.high_demand_multiplier, 2)
    ELSE Dec(self.normal_demand_multiplier, 2)

\* a call of calculate_demand_multiplier(equipment, date)
CalculateDemandMultiplier(e, date) ==
    /\ call = NoCall
    /\ call' = [fn |-> "calculate_demand_multiplier",
                equipment_type |-> equipment[e].equipment_type, date |-> date,
                config |-> DemandFirst(equipment[e].equipment_type),
                booking_count |->
                    BookingCount(equipment[e].equipment_type, date, LookBackDays),
                result |-> calculate_demand_multiplier(equipment[e], date)]
    /\ UNCHANGED tableVars
    /\ UNCHANGED historyVars
    /\ UNCHANGED bookingVars

\* demand_pricing.get_multiplier(demand_pricing.calculate_demand_level(date)),
\* as update_demand_pricing calls them
DemandLevel(i, date) ==
    /\ call = NoCall
    /\ i \in DOMAIN demand
    /\ call' = [fn |-> "calculate_demand_level",
                equipment_type |-> demand[i].equipment_type, date |-> date,
                config |-> i,
                booking_count |->
                    BookingCount(demand[i].equipment_type, date,
                                 demand[i].demand_calculation_days),
                level |-> calculate_demand_level(demand[i], date),
                result |-> get_multiplier(demand[i],
                                          calculate_demand_level(demand[i], date))]
    /\ UNCHANGED tableVars
    /\ UNCHANGED historyVars
    /\ UNCHANGED bookingVars

(* PricingRule *)

\* date.weekday(): day 0 of the model is a Monday
weekday(date) == date % 7

\* location=None
NoLocation == [given |-> FALSE, lat |-> 0, lng |-> 0]

\* PricingRule.is_applicable(equipment, date, time, location); e is the
\* equipment's id.  Model instances, dates and times are truthy whenever
\* they are not None; a Decimal bound is truthy when it is neither None nor
\* zero; an empty days_of_week list is falsy
is_applicable(self, e, date, time, location) ==
    IF self.equipment # Null /\ self.equipment # e THEN FALSE
    ELSE IF self.equipment_type # Null
            /\ equipment[e].equipment_type # self.equipment_type THEN FALSE
    ELSE IF self.start_date # Null /\ date < self.start_date THEN FALSE
    ELSE IF self.end_date # Null /\ date > self.end_date THEN FALSE
    ELSE IF time # Null /\ self.start_time # Null /\ time < self.start_time
         THEN FALSE
    ELSE IF time # Null /\ self.end_time # Null /\ time > self.end_time
         THEN FALSE
    ELSE IF self.days_of_week # {} /\ weekday(date) \notin self.days_of_week
         THEN FALSE
    ELSE IF location.given /\ Truthy(self.latitude_min)
            /\ location.lat < self.latitude_min THEN FALSE
    ELSE IF location.given /\ Truthy(self.latitude_max)
            /\ location.lat > self.latitude_max THEN FALSE
    ELSE IF location.given /\ Truthy(self.longitude_min)
            /\ location.lng < self.longitude_min THEN FALSE
    ELSE IF location.given /\ Truthy(self.longitude_max)
            /\ location.lng > self.longitude_max THEN FALSE
    ELSE TRUE

\* PricingRule.objects.filter(Q(equipment=equipment)
\*     | Q(equipment_type=equipment.equipment_type), is_active=True)
ScopedRules(e) ==
    {i \in DOMAIN rules :
        /\ rules[i].is_active
        /\ \/ rules[i].equipment = e
           \/ rules[i].equipment_type = equipment[e].equipment_type}

\* .order_by('-priority').first(): a row of the greatest priority; rows of
\* equal priority come in an order the database does not fix
RuleFirst(e) ==
    IF ScopedRules(e) = {} THEN {NoRule}
    ELSE {i \in ScopedRules(e) :
            \A j \in ScopedRules(e) : rules[i].priority >= rules[j].priority}

\* apply_pricing_rules, given the row .first() returned
apply_pricing_rules(e, rule, date) ==
    IF rule # NoRule /\ is_applicable(rules[rule], e, date, Null, NoLocation)
    THEN Dec(rules[rule].daily_multiplier, 2)
    ELSE FloatOne

\* a call of rule.is_applicable(equipment, date, time, location)
IsApplicable(rule, e, date, time, location) ==
    /\ call = NoCall
    /\ call' = [fn |-> "is_applicable", self |-> rule, equipment |-> e,
                date |-> date, time |-> time, location |-> location,
                result |-> is_applicable(rule, e, date, time, location)]
    /\ UNCHANGED tableVars
    /\ UNCHANGED historyVars
    /\ UNCHANGED bookingVars

\* a call of apply_pricing_rules(equipment, date)
ApplyPricingRules(e, date) ==
    /\ call = NoCall
    /\ \E rule \in RuleFirst(e) :
          call' = [fn |-> "apply_pricing_rules", equipment |-> e, date |-> date,
                   rule |-> rule, result |-> apply_pricing_rules(e, rule, date)]
    /\ UNCHANGED tableVars
    /\ UNCHANGED historyVars
    /\ UNCHANGED bookingVars

(* calculate_equipment_pricing *)

\* the value calculate_seasonal_multiplier returned, as a number
Num(m) == IF m.type = "float" THEN FloatOne ELSE Dec(m.value, 2)

\* a final multiplier made of the seasonal multiplier alone
FinalMultiplier_seasonal_only(e, date, seasonal_pricing, rule) ==
    Num(calculate_seasonal_multiplier(seasonal_pricing))

\* final_multiplier = demand_multiplier * seasonal_multiplier * rule_multiplier
FinalMultiplier(e, date, seasonal_pricing, rule) ==
    Mul(Mul(calculate_demand_multiplier(equipment[e], date),
            Num(calculate_seasonal_multiplier(seasonal_pricing))),
        apply_pricing_rules(e, rule, date))

\* calculate_equipment_pricing(equipment_id, date), given the rows the two
\* .first() calls returned; an exception inside the try block gives the
\* "Error calculating pricing: ..." string instead of the dict
calculate_equipment_pricing(equipment_id, date, seasonal_pricing, rule) ==
    IF equipment_id \notin DOMAIN equipment THEN [outcome |-> "not found"]
    ELSE
    LET final_multiplier ==
            FinalMultiplier(equipment_id, date, seasonal_pricing, rule)
        adjusted_hourly_rate ==
            Mul(Dec(equipment[equipment_id].hourly_rate, 2), final_multiplier)
        adjusted_daily_rate ==
            Mul(Dec(equipment[equipment_id].daily_rate, 2), final_multiplier)
    IN  IF "TypeError" \in {final_multiplier.type, adjusted_hourly_rate.type,
                            adjusted_daily_rate.type}
        THEN [outcome |-> "error"]
        ELSE [outcome |-> "returned",
              demand_multiplier |->
                  calculate_demand_multiplier(equipment[equipment_id], date),
              seasonal_multiplier |->
                  Num(calculate_seasonal_multiplier(seasonal_pricing)),
              rule_multiplier |-> apply_pricing_rules(equipment_id, rule, date),
              final_multiplier |-> final_multiplier,
              adjusted_hourly_rate |-> adjusted_hourly_rate,
              adjusted_daily_rate |-> adjusted_daily_rate]

\* equipment ids a caller can pass: the stored ones and an unknown one
EquipmentIdInputs == EquipmentIds \cup {3}

\* a call of calculate_equipment_pricing; date=None means today
CalculateEquipmentPricing(equipment_id, date_arg) ==
    LET date == IF date_arg = Null THEN today ELSE date_arg
        e == IF equipment_id \in DOMAIN equipment THEN equipment_id ELSE 1
    IN
    /\ call = NoCall
    /\ \E seasonal_pricing \in SeasonalFirst(equipment[e].equipment_type, date),
          rule \in RuleFirst(e) :
          call' = [fn |-> "calculate_equipment_pricing",
                   equipment |-> equipment_id, date |-> date,
                   seasonal_pricing |-> seasonal_pricing, rule |-> rule,
                   config |-> DemandFirst(equipment[e].equipment_type),
                   result |-> calculate_equipment_pricing(
                                  equipment_id, date, seasonal_pricing, rule)]
    /\ UNCHANGED tableVars
    /\ UNCHANGED historyVars
    /\ UNCHANGED bookingVars

----------------------------------------------------------------------------
(* Specification of the pricing pipeline: the tables hold a configuration  *)
(* drawn from bounded sets, a behaviour makes one call on it               *)

\* the day the pipeline runs on, a Tuesday, and the day before
AsOf == 8
AsOfDates == {AsOf - 1, AsOf}

\* bookings around the 7-day window that ends on AsOf: one started before
\* the window, one at its first midnight, one at its last midnight, one
\* later on the last day
DemandBookingRows ==
    {[equipment |-> e, start_date |-> b[1], end_date |-> b[1] + 1, status |-> b[2]] :
        e \in EquipmentIds,
        b \in {<<Midnight(AsOf - 8), "confirmed">>,
               <<Midnight(AsOf - 7), "confirmed">>,
               <<Midnight(AsOf - 7), "in_progress">>,
               <<Midnight(AsOf), "confirmed">>,
               <<Midnight(AsOf), "cancelled">>,
               <<Midnight(AsOf) + 1, "confirmed">>}}

DemandBookingTables == UNION {[1..n -> DemandBookingRows] : n \in 0..MaxBookings}

\* DemandPricing rows: thresholds within the counts the bookings can reach,
\* the default multipliers 0.80 / 1.00 / 1.30, the default window and a
\* longer one
DemandRows ==
    [equipment_type : EquipmentTypes, is_active : BOOLEAN,
     low_demand_threshold : {0, 1}, high_demand_threshold : {1, 2},
     low_demand_multiplier : {80}, normal_demand_multiplier : {100},
     high_demand_multiplier : {130}, demand_calculation_days : {7, 8}]

DefaultDemand ==
    [equipment_type |-> 1, is_active |-> TRUE, low_demand_threshold |-> 0,
     high_demand_threshold |-> 10, low_demand_multiplier |-> 80,
     normal_demand_multiplier |-> 100, high_demand_multiplier |-> 130,
     demand_calculation_days |-> 7]

\* a SeasonalPricing row in force on both days
SeasonRow ==
    [equipment_type |-> 1, start_date |-> 0, end_date |-> AsOf,
     is_active |-> TRUE, hourly_multiplier |-> 100, daily_multiplier |-> 125,
     fixed_hourly_rate |-> Null, fixed_daily_rate |-> Null]

\* a PricingRule row with no constraint set
RuleRow(equipment_id, equipment_type, start_date, priority, is_active, fixed_daily_rate) ==
    [equipment |-> equipment_id, equipment_type |-> equipment_type,
     start_date |-> start_date, end_date |-> Null,
     start_time |-> Null, end_time |-> Null, days_of_week |-> {},
     latitude_min |-> Null, latitude_max |-> Null,
     longitude_min |-> Null, longitude_max |-> Null,
     daily_multiplier |-> 100 + 10 * priority,
     fixed_daily_rate |-> fixed_daily_rate,
     priority |-> priority, is_active |-> is_active]

\* rules scoped to equipment 1, to its type or to the other type, in force
\* always or from AsOf on, of priority 1 or 5
SelectionRuleRows ==
    {RuleRow(scope[1], scope[2], start_date, priority, is_active, fixed_daily_rate) :
        scope \in {<<1, Null>>, <<Null, 1>>, <<Null, 2>>},
        start_date \in {Null, AsOf}, priority \in {1, 5},
        is_active \in BOOLEAN, fixed_daily_rate \in {Null, 4000}}

SelectionRuleTables == UNION {[1..n -> SelectionRuleRows] : n \in 0..2}

OneBooking ==
    <<[equipment |-> 1, start_date |-> Midnight(AsOf), end_date |-> Midnight(AsOf) + 1,
       status |-> "confirmed"]>>

InitPipeline ==
    /\ SideIdle
    /\ notifications = 0
    /\ message = NoMessage
    /\ req = [r \in Requests |-> Idle]
    /\ equipment = DefaultEquipment
    /\ today = AsOf
    /\ call = NoCall
    /\ history = <<>>
    /\ job = [j \in Jobs |-> IdleJob]
    /\ \/ /\ bookings \in DemandBookingTables
          /\ demand \in {<<>>} \cup {<<row>> : row \in {r \in DemandRows :
                                                        r.equipment_type = 1}}
          /\ seasonal = <<>>
          /\ rules = <<>>
       \/ /\ bookings = OneBooking
          /\ demand \in [1..2 -> DemandRows]
          /\ seasonal = <<>>
          /\ rules = <<>>
       \/ /\ bookings = OneBooking
          /\ demand = <<DefaultDemand>>
          /\ seasonal = <<SeasonRow>>
          /\ rules \in SelectionRuleTables
       \/ /\ bookings = OneBooking
          /\ demand \in {<<>>, <<DefaultDemand>>}
          /\ seasonal \in {<<>>, <<SeasonRow>>}
          /\ rules \in {<<>>, <<RuleRow(1, Null, Null, 5, TRUE, Null)>>}

NextPipeline ==
    \/ \E e \in EquipmentIds, date \in AsOfDates : CalculateDemandMultiplier(e, date)
    \/ \E i \in 1..2, date \in AsOfDates : DemandLevel(i, date)
    \/ \E e \in EquipmentIds, date \in AsOfDates : ApplyPricingRules(e, date)
    \/ \E equipment_id \in EquipmentIdInputs, date \in AsOfDates \cup {Null} :
          CalculateEquipmentPricing(equipment_id, date)

SpecPipeline == InitPipeline /\ [][NextPipeline]_vars

(* PricingRule.is_applicable on its own *)

\* rules with every constraint unset or set: scoped to equipment 1 or type
\* 1, from AsOf on, until the day before, between 01:00 and 01:00, on
\* Mondays, and with location bounds that include a zero upper latitude
ApplicabilityRuleRows ==
    [equipment : {Null, 1}, equipment_type : {Null, 1},
     start_date : {Null, AsOf}, end_date : {Null, AsOf - 1},
     start_time : {Null, 1}, end_time : {Null, 1}, days_of_week : {{}, {0}},
     latitude_min : {Null, 2}, latitude_max : {Null, 0, 2},
     longitude_min : {Null, 2}, longitude_max : {Null, 2},
     daily_multiplier : {150}, fixed_daily_rate : {Null},
     priority : {1}, is_active : {TRUE}]

TimeInputs == {Null, 0, 1, 2}

LocationInputs ==
    {NoLocation} \cup {[given |-> TRUE, lat |-> x, lng |-> x] : x \in {1, 2, 3}}

InitApplicable ==
    /\ SideIdle
    /\ BookingIdle
    /\ equipment = DefaultEquipment
    /\ seasonal = <<>>
    /\ today = AsOf
    /\ call = NoCall
    /\ demand = <<>>
    /\ history = <<>>
    /\ job = [j \in Jobs |-> IdleJob]
    /\ rules \in {<<row>> : row \in ApplicabilityRuleRows}

NextApplicable ==
    \E e \in EquipmentIds, date \in AsOfDates, time \in TimeInputs,
       location \in LocationInputs :
        IsApplicable(rules[1], e, date, time, location)

SpecApplicable == InitApplicable /\ [][NextApplicable]_vars

(* the two price computations on one configuration *)

\* Equipment.get_current_price('daily') and calculate_equipment_pricing for
\* the same equipment on the same day, each making its own lookups
PriceBothWays(e) ==
    /\ call = NoCall
    /\ \E active_rule \in active_seasonal_rule(equipment[e]),
          seasonal_pricing \in SeasonalFirst(equipment[e].equipment_type, today),
          rule \in RuleFirst(e) :
          call' = [fn |-> "price_both_ways", equipment |-> e,
                   active_rule |-> active_rule,
                   seasonal_pricing |-> seasonal_pricing, rule |-> rule,
                   current |-> get_current_price(equipment[e], active_rule, "daily"),
                   pipeline |-> calculate_equipment_pricing(e, today,
                                                            seasonal_pricing, rule)]
    /\ UNCHANGED tableVars
    /\ UNCHANGED historyVars
    /\ UNCHANGED bookingVars

\* a SeasonalPricing row in force with a fixed daily rate
FixedSeasonRow ==
    [SeasonRow EXCEPT !.daily_multiplier = 100, !.fixed_daily_rate = 4000]

InitCompare ==
    /\ SideIdle
    /\ notifications = 0
    /\ message = NoMessage
    /\ req = [r \in Requests |-> Idle]
    /\ equipment = DefaultEquipment
    /\ today = AsOf
    /\ call = NoCall
    /\ history = <<>>
    /\ job = [j \in Jobs |-> IdleJob]
    /\ bookings \in {<<>>, OneBooking}
    /\ demand \in {<<>>} \cup {<<row>> : row \in {r \in DemandRows :
                                                  r.equipment_type = 1}}
    /\ seasonal \in {<<>>, <<SeasonRow>>, <<FixedSeasonRow>>}
    /\ rules \in {<<>>} \cup {<<row>> : row \in SelectionRuleRows}

NextCompare == \E e \in EquipmentIds : PriceBothWays(e)

SpecCompare == InitCompare /\ [][NextCompare]_vars

----------------------------------------------------------------------------
(* pricing/tasks.py: the pricing history *)

\* what a DecimalField stores of a Decimal: the value rounded half-even to
\* the field's decimal places, as an integer number of 10^-places
Quantize(x, places) ==
    IF x.exp <= places THEN x.value * 10^(places - x.exp)
    ELSE LET unit == 10^(x.exp - places)
             q == x.value \div unit
             r == x.value % unit
         IN  IF 2 * r > unit THEN q + 1
             ELSE IF 2 * r < unit THEN q
             ELSE q + (q % 2)

\* PricingHistory.objects.filter(equipment=equipment, effective_date=date)
HistoryMatches(h, e, date) ==
    {pk \in DOMAIN h : h[pk].equipment = e /\ h[pk].effective_date = date}

\* the row get_or_create inserts from its defaults
HistoryRow(e, multiplier, date) ==
    [equipment |-> e, effective_date |-> date,
     base_rate |-> equipment[e].daily_rate,
     adjusted_rate |-> Quantize(Mul(Dec(equipment[e].daily_rate, 2), multiplier), 2),
     multiplier |-> Quantize(multiplier, 2),
     rate_type |-> "daily", demand_level |-> "normal"]

\* pricing_history.adjusted_rate = ...; pricing_history.multiplier = ...;
\* pricing_history.save()
HistorySave(h, pk, e, multiplier) ==
    [h EXCEPT ![pk].adjusted_rate =
                  Quantize(Mul(Dec(equipment[e].daily_rate, 2), multiplier), 2),
              ![pk].multiplier = Quantize(multiplier, 2)]

\* the try block of update_pricing_history(equipment, multiplier, date) on
\* the table h, run without interleaving: the table it leaves and how it
\* ends.  Decimal * float raises TypeError and get() on several rows raises
\* MultipleObjectsReturned
update_pricing_history_try(h, e, multiplier, date) ==
    LET matches == HistoryMatches(h, e, date) IN
    IF Mul(Dec(equipment[e].daily_rate, 2), multiplier).type = "TypeError"
    THEN [history |-> h, outcome |-> "TypeError"]
    ELSE IF Cardinality(matches) > 1
    THEN [history |-> h, outcome |-> "MultipleObjectsReturned"]
    ELSE IF matches = {}
    THEN [history |-> Append(h, HistoryRow(e, multiplier, date)),
          outcome |-> "created"]
    ELSE [history |-> HistorySave(h, CHOOSE pk \in matches : TRUE, e, multiplier),
          outcome |-> "updated"]

\* the outcomes of the try block that are exceptions
Exceptions == {"TypeError", "MultipleObjectsReturned"}

\* update_pricing_history without its except clause: the exception reaches
\* the caller
update_pricing_history_no_except(h, e, multiplier, date) ==
    LET body == update_pricing_history_try(h, e, multiplier, date)
    IN  [history |-> body.history, result |-> body.outcome \notin Exceptions,
         raised |-> body.outcome \in Exceptions]

\* update_pricing_history(equipment, multiplier, date): True after the try
\* block, False from the except clause that catches every Exception
update_pricing_history(h, e, multiplier, date) ==
    LET body == update_pricing_history_try(h, e, multiplier, date)
    IN  [history |-> body.history, result |-> body.outcome \notin Exceptions,
         raised |-> FALSE]

\* Equipment.objects.filter(is_active=True) under Meta.ordering =
\* ['-created_at']: the active equipment, newest (greatest id) first
RECURSIVE NewestFirst(_)
NewestFirst(ids) ==
    IF ids = {} THEN <<>>
    ELSE LET newest == CHOOSE e \in ids : \A f \in ids : f <= e
         IN  <<newest>> \o NewestFirst(ids \ {newest})

equipment_list == NewestFirst({e \in DOMAIN equipment : equipment[e].is_active})

\* the loop of update_dynamic_pricing over the equipment es, from the
\* table h: the tables it can end with.  A TypeError in the product of the
\* three multipliers leaves the loop for the task's except clause
RECURSIVE update_dynamic_pricing(_, _)
update_dynamic_pricing(es, h) ==
    IF es = <<>> THEN {[history |-> h, outcome |-> "updated"]}
    ELSE LET e == Head(es) IN
         UNION {LET final_multiplier == FinalMultiplier(e, today, seasonal_pricing, rule)
                    updated == update_pricing_history(h, e, final_multiplier, today)
                IN  IF final_multiplier.type = "TypeError" \/ updated.raised
                    THEN {[history |-> h, outcome |-> "error"]}
                    ELSE update_dynamic_pricing(Tail(es), updated.history) :
                    seasonal_pricing \in SeasonalFirst(equipment[e].equipment_type, today),
                    rule \in RuleFirst(e)}

MaxRuns == 2

RunsMade == IF call.fn = "update_dynamic_pricing" THEN call.runs ELSE 0

\* a run of the update_dynamic_pricing task; call keeps the number of runs
\* made and the table the first run left
UpdateDynamicPricing ==
    /\ RunsMade < MaxRuns
    /\ \E run \in update_dynamic_pricing(equipment_list, history) :
          /\ history' = run.history
          /\ call' = [fn |-> "update_dynamic_pricing", runs |-> RunsMade + 1,
                      outcome |-> run.outcome,
                      first |-> IF RunsMade = 0 THEN run.history ELSE call.first]
    /\ UNCHANGED tableVars
    /\ UNCHANGED job
    /\ UNCHANGED bookingVars

\* the equipment table with any of the items inactive
ActiveTables ==
    {[e \in EquipmentIds |-> [DefaultEquipment[e] EXCEPT !.is_active = a[e]]] :
        a \in [EquipmentIds -> BOOLEAN]}

InitHistory ==
    /\ SideIdle
    /\ notifications = 0
    /\ message = NoMessage
    /\ req = [r \in Requests |-> Idle]
    /\ bookings = OneBooking
    /\ equipment \in ActiveTables
    /\ today = AsOf
    /\ call = NoCall
    /\ history = <<>>
    /\ job = [j \in Jobs |-> IdleJob]
    /\ demand \in {<<>>, <<DefaultDemand>>}
    /\ seasonal \in {<<>>, <<SeasonRow>>}
    /\ rules \in {<<>>} \cup {<<row>> : row \in SelectionRuleRows}

NextHistory == UpdateDynamicPricing

SpecHistory == InitHistory /\ [][NextHistory]_vars

(* update_pricing_history under concurrent callers: get_or_create is a      *)
(* SELECT followed by an INSERT, and PricingHistory has no unique           *)
(* constraint on (equipment, effective_date)                                *)

\* the multipliers the tasks pass: Decimal products and rows' multipliers
MultiplierInputs == {Dec(125, 2), Dec(13, 1)}

\* lines 242-255: the adjusted rate, then the get() of get_or_create
update_pricing_history_get(j, e, multiplier) ==
    LET matches == HistoryMatches(history, e, today) IN
    /\ job[j].pc = "idle"
    /\ Cardinality(matches) <= 1
    /\ job' = [job EXCEPT ![j] =
                  IF matches = {}
                  THEN [pc |-> "create", equipment |-> e, multiplier |-> multiplier]
                  ELSE [pc |-> "save", equipment |-> e, multiplier |-> multiplier,
                        pk |-> CHOOSE pk \in matches : TRUE]]
    /\ UNCHANGED <<history, call>>
    /\ UNCHANGED tableVars
    /\ UNCHANGED bookingVars

\* line 245: the create() of get_or_create, after get() found no row
update_pricing_history_create(j) ==
    /\ job[j].pc = "create"
    /\ history' = Append(history,
                         HistoryRow(job[j].equipment, job[j].multiplier, today))
    /\ call' = [fn |-> "update_pricing_history", equipment |-> job[j].equipment,
                multiplier |-> job[j].multiplier]
    /\ job' = [job EXCEPT ![j] = IdleJob]
    /\ UNCHANGED tableVars
    /\ UNCHANGED bookingVars

\* lines 257-261: update of the row get() found
update_pricing_history_save(j) ==
    /\ job[j].pc = "save"
    /\ history' = HistorySave(history, job[j].pk, job[j].equipment,
                              job[j].multiplier)
    /\ call' = [fn |-> "update_pricing_history", equipment |-> job[j].equipment,
                multiplier |-> job[j].multiplier]
    /\ job' = [job EXCEPT ![j] = IdleJob]
    /\ UNCHANGED tableVars
    /\ UNCHANGED bookingVars

InitHistoryRace ==
    /\ BookingIdle
    /\ equipment = DefaultEquipment
    /\ seasonal = <<>>
    /\ today = AsOf
    /\ call = NoCall
    /\ PipelineIdle

NextHistoryRace ==
    \/ \E j \in Jobs, e \in EquipmentIds, multiplier \in MultiplierInputs :
          update_pricing_history_get(j, e, multiplier)
    \/ \E j \in Jobs : update_pricing_history_create(j)
    \/ \E j \in Jobs : update_pricing_history_save(j)

SpecHistoryRace == InitHistoryRace /\ [][NextHistoryRace]_vars

(* pricing/tasks.py: the tasks that write one multiplier per equipment, and *)
(* the edit of an equipment's rates                                         *)

\* a loop of update_pricing_history calls, one per element of writes, from
\* the table h; an exception that reaches the loop ends the task in its
\* except clause
RECURSIVE WriteAll(_, _)
WriteAll(writes, h) ==
    IF writes = <<>> THEN [history |-> h, outcome |-> "updated"]
    ELSE LET updated == update_pricing_history(h, Head(writes).equipment,
                                               Head(writes).multiplier, today)
         IN  IF updated.raised THEN [history |-> updated.history, outcome |-> "error"]
             ELSE WriteAll(Tail(writes), updated.history)

\* Equipment.objects.filter(equipment_type=..., is_active=True), newest first
EquipmentOfType(equipment_type) ==
    NewestFirst({e \in DOMAIN equipment :
        equipment[e].is_active /\ equipment[e].equipment_type = equipment_type})

\* the calls the nested loops of a task make for one configuration row
WritesFor(equipment_type, multiplier) ==
    LET es == EquipmentOfType(equipment_type)
    IN  [k \in 1..Len(es) |-> [equipment |-> es[k], multiplier |-> multiplier]]

\* update_demand_pricing: the calls for the active DemandPricing rows from
\* row i on, in pk order
RECURSIVE DemandWrites(_)
DemandWrites(i) ==
    IF i > Len(demand) THEN <<>>
    ELSE (IF demand[i].is_active
          THEN WritesFor(demand[i].equipment_type,
                         get_multiplier(demand[i],
                                        calculate_demand_level(demand[i], today)))
          ELSE <<>>) \o DemandWrites(i + 1)

update_demand_pricing(h) == WriteAll(DemandWrites(1), h)

\* a run of the update_demand_pricing task
UpdateDemandPricing ==
    /\ LET run == update_demand_pricing(history)
       IN  /\ history' = run.history
           /\ call' = [fn |-> "update_demand_pricing", outcome |-> run.outcome]
    /\ UNCHANGED tableVars
    /\ UNCHANGED job
    /\ UNCHANGED bookingVars

\* the orders SeasonalPricing.objects.filter(is_active=True, start_date__lte=
\* today, end_date__gte=today) can come in: by start_date (Meta.ordering),
\* rows of one start_date in any order
SeasonalOrders ==
    LET rows == {pk \in DOMAIN seasonal : is_active_for_date(seasonal[pk], today)}
        n == Cardinality(rows)
    IN  {order \in [1..n -> rows] :
            /\ \A i, j \in 1..n : i # j => order[i] # order[j]
            /\ \A i, j \in 1..n :
                   i < j => seasonal[order[i]].start_date <= seasonal[order[j]].start_date}

\* apply_seasonal_pricing: the calls for the rows of order from row i on
RECURSIVE SeasonalWrites(_, _)
SeasonalWrites(order, i) ==
    IF i > Len(order) THEN <<>>
    ELSE WritesFor(seasonal[order[i]].equipment_type,
                   Dec(seasonal[order[i]].daily_multiplier, 2))
         \o SeasonalWrites(order, i + 1)

apply_seasonal_pricing(h) ==
    {WriteAll(SeasonalWrites(order, 1), h) : order \in SeasonalOrders}

\* a run of the apply_seasonal_pricing task
ApplySeasonalPricing ==
    /\ \E run \in apply_seasonal_pricing(history) :
          /\ history' = run.history
          /\ call' = [fn |-> "apply_seasonal_pricing", outcome |-> run.outcome]
    /\ UNCHANGED tableVars
    /\ UNCHANGED job
    /\ UNCHANGED bookingVars

\* values update_dynamic_pricing passes as multiplier: a product of three
\* places, and the float 1.0 of a pipeline with nothing configured
TaskMultipliers == {Dec(1375, 3), FloatOne}

\* a call of update_pricing_history(equipment, multiplier, today)
UpdatePricingHistory(e, multiplier) ==
    /\ LET updated == update_pricing_history(history, e, multiplier, today)
       IN  /\ history' = updated.history
           /\ call' = [fn |-> "update_pricing_history", equipment |-> e,
                       multiplier |-> multiplier,
                       failed |-> update_pricing_history_try(history, e, multiplier,
                                      today).outcome \in Exceptions,
                       result |-> updated.result, raised |-> updated.raised]
    /\ UNCHANGED tableVars
    /\ UNCHANGED job
    /\ UNCHANGED bookingVars

\* the daily rates an owner enters
DailyRates == {5000, 6000}

\* equipment_edit: a valid POST of the form saves the equipment with the
\* daily_rate entered
equipment_edit(e, daily_rate) ==
    /\ equipment' = [equipment EXCEPT ![e].daily_rate = daily_rate]
    /\ call' = [fn |-> "equipment_edit", equipment |-> e]
    /\ UNCHANGED <<seasonal, today, demand, rules>>
    /\ UNCHANGED sideVars
    /\ UNCHANGED historyVars
    /\ UNCHANGED bookingVars

\* a table two racing update_pricing_history calls left: two rows for
\* equipment 1 and the day
RacedHistory ==
    <<HistoryRow(1, Dec(125, 2), AsOf), HistoryRow(1, Dec(13, 1), AsOf)>>

\* DemandPricing tables of one active row for type 1 over the default window
TaskDemandTables ==
    {<<>>} \cup {<<row>> : row \in {r \in DemandRows :
                     /\ r.is_active
                     /\ r.equipment_type = 1
                     /\ r.demand_calculation_days = LookBackDays}}

InitTasks ==
    /\ SideIdle
    /\ notifications = 0
    /\ message = NoMessage
    /\ req = [r \in Requests |-> Idle]
    /\ bookings \in {<<>>, OneBooking}
    /\ equipment \in ActiveTables
    /\ today = AsOf
    /\ call = NoCall
    /\ history \in {<<>>, RacedHistory}
    /\ job = [j \in Jobs |-> IdleJob]
    /\ demand \in TaskDemandTables
    /\ seasonal \in {<<>>, <<SeasonRow>>}
    /\ rules = <<>>

NextTasks ==
    \/ UpdateDemandPricing
    \/ ApplySeasonalPricing
    \/ \E e \in EquipmentIds, multiplier \in TaskMultipliers :
          UpdatePricingHistory(e, multiplier)
    \/ \E e \in EquipmentIds, daily_rate \in DailyRates : equipment_edit(e, daily_rate)

SpecTasks == InitTasks /\ [][NextTasks]_vars

----------------------------------------------------------------------------
(* payments/models.py, payments/api.py: the M-Pesa payment callback *)

\* ResultCode values a callback carries: success and a failure code
ResultCodes == {"0", "1032"}

\* CheckoutRequestID / MerchantRequestID pairs: those of the stored
\* payments and an unknown one
RequestIds == {1, 2, 3}

\* Payment.is_successful
is_successful(self) == self.status = "completed"

\* Payment.confirm_mpesa_payment on the stored payment pk: the tables it
\* leaves and how it ends.  The module does not import timezone, so the
\* assignment of payment_date on the success branch raises NameError before
\* self.save()
confirm_mpesa_payment(pk, result_code) ==
    IF result_code = "0"
    THEN [payments |-> payments, bookings |-> bookings, outcome |-> "NameError"]
    ELSE LET saved == [payments EXCEPT ![pk].status = "failed",
                                       ![pk].mpesa_result_code = result_code]
         IN  [payments |-> saved,
              bookings |-> IF is_successful(saved[pk])
                           THEN [bookings EXCEPT ![saved[pk].booking].status =
                                                     "confirmed"]
                           ELSE bookings,
              outcome |-> "returned"]

\* Payment.objects.get(mpesa_merchant_request_id=..., mpesa_checkout_request_id=...)
PaymentMatches(request_id) ==
    {pk \in DOMAIN payments : payments[pk].request_id = request_id}

\* MPesaCallbackHandler.handle_payment_callback: the tables it leaves and
\* the dict it returns
handle_payment_callback(request_id, result_code) ==
    LET matches == PaymentMatches(request_id)
        pk == CHOOSE m \in matches : TRUE
        confirmed == confirm_mpesa_payment(pk, result_code)
    IN  IF matches = {}
        THEN [payments |-> payments, bookings |-> bookings, payment |-> 0,
              result |-> [success |-> FALSE, error |-> "Payment not found"]]
        ELSE IF Cardinality(matches) > 1
        THEN [payments |-> payments, bookings |-> bookings, payment |-> 0,
              result |-> [success |-> FALSE, error |-> "Callback processing error"]]
        ELSE IF result_code = "0"
        THEN IF confirmed.outcome = "returned"
             THEN [payments |-> confirmed.payments, bookings |-> confirmed.bookings,
                   payment |-> pk,
                   result |-> [success |-> TRUE, error |-> ""]]
             ELSE [payments |-> confirmed.payments, bookings |-> confirmed.bookings,
                   payment |-> pk,
                   result |-> [success |-> FALSE,
                               error |-> "Callback processing error"]]
        ELSE [payments |-> [payments EXCEPT ![pk].status = "failed",
                                            ![pk].mpesa_result_code = result_code],
              bookings |-> bookings, payment |-> pk,
              result |-> [success |-> FALSE, error |-> "ResultDesc"]]

\* a callback delivered to handle_payment_callback
HandlePaymentCallback(request_id, result_code) ==
    /\ LET handled == handle_payment_callback(request_id, result_code)
       IN  /\ payments' = handled.payments
           /\ bookings' = handled.bookings
           /\ call' = [fn |-> "handle_payment_callback", request_id |-> request_id,
                       result_code |-> result_code, payment |-> handled.payment,
                       booking_status |->
                           IF handled.payment = 0 THEN ""
                           ELSE bookings[payments[handled.payment].booking].status,
                       result |-> handled.result]
    /\ UNCHANGED <<notifications, message, req>>
    /\ UNCHANGED <<equipment, seasonal, today, demand, rules>>
    /\ UNCHANGED <<predictions, taken, gen>>
    /\ UNCHANGED historyVars

\* a payment awaiting its callback
PaymentRow(booking, request_id, status) ==
    [booking |-> booking, request_id |-> request_id, status |-> status,
     mpesa_result_code |-> ""]

\* payments of the stored bookings, each with its own request ids, awaiting
\* the callback or already failed
PaymentTables ==
    {<<PaymentRow(1, 1, s)>> : s \in {"pending", "processing", "failed"}}
    \cup {<<PaymentRow(1, 1, s[1]), PaymentRow(b, 2, s[2])>> :
             s \in {"pending", "processing"} \X {"pending", "processing"},
             b \in 1..2}

\* two stored bookings of any status
PaidBookingTables ==
    {<<[equipment |-> 1, start_date |-> 0, end_date |-> 1, status |-> s[1]],
       [equipment |-> 2, start_date |-> 0, end_date |-> 1, status |-> s[2]]>> :
        s \in {"pending", "confirmed", "cancelled"} \X {"pending", "confirmed"}}

InitPayments ==
    /\ bookings \in PaidBookingTables
    /\ notifications = 0
    /\ message = NoMessage
    /\ req = [r \in Requests |-> Idle]
    /\ equipment = DefaultEquipment
    /\ seasonal = <<>>
    /\ today = 1
    /\ call = NoCall
    /\ demand = <<>>
    /\ rules = <<>>
    /\ history = <<>>
    /\ job = [j \in Jobs |-> IdleJob]
    /\ payments \in PaymentTables
    /\ predictions = <<>>
    /\ taken = {}
    /\ gen = IdleGen

NextPayments ==
    \E request_id \in RequestIds, result_code \in ResultCodes :
        HandlePaymentCallback(request_id, result_code)

SpecPayments == InitPayments /\ [][NextPayments]_vars

----------------------------------------------------------------------------
(* maintenance/models.py: MaintenancePrediction *)

MaxPredictions == 3

\* predicted_failure_probability values on both sides of a risk threshold
Probabilities == {10, 80}

\* the risk level save() derives from predicted_failure_probability
risk_level(predicted_failure_probability) ==
    IF predicted_failure_probability >= 75 THEN "critical"
    ELSE IF predicted_failure_probability >= 50 THEN "high"
    ELSE IF predicted_failure_probability >= 25 THEN "medium"
    ELSE "low"

\* the row super().save() writes for the instance
PredictionRow(self) ==
    [equipment |-> self.equipment,
     predicted_failure_probability |-> self.predicted_failure_probability,
     risk_level |-> risk_level(self.predicted_failure_probability),
     is_active |-> self.is_active]

\* the pk the instance has after super().save()
SavedPk(self) == IF self.pk = NoPk THEN Len(predictions) + 1 ELSE self.pk

\* the table after super().save(): an INSERT for an unsaved instance, an
\* UPDATE of its row otherwise
SuperSave(self) ==
    IF self.pk = NoPk THEN Append(predictions, PredictionRow(self))
    ELSE [predictions EXCEPT ![self.pk] = PredictionRow(self)]

\* a save that leaves the other predictions of the equipment as they are
save_no_deactivate(self) == SuperSave(self)

\* MaintenancePrediction.save: the table it leaves
save(self) ==
    LET saved == SuperSave(self)
    IN  IF self.is_active
        THEN [pk \in DOMAIN saved |->
                 IF saved[pk].equipment = self.equipment /\ pk # SavedPk(self)
                 THEN [saved[pk] EXCEPT !.is_active = FALSE]
                 ELSE saved[pk]]
        ELSE saved

\* the instances save() is called on: a new prediction, or a stored one with
\* any field reassigned in memory
PredictionInstances ==
    [pk : {NoPk} \cup DOMAIN predictions, equipment : EquipmentIds,
     predicted_failure_probability : Probabilities, is_active : BOOLEAN]

\* the active predictions of an equipment in a table
ActivePredictions(table, e) ==
    {pk \in DOMAIN table : table[pk].equipment = e /\ table[pk].is_active}

\* a call of MaintenancePrediction.save (also the create() of
\* auto_create_prediction and of generate_predictions)
MaintenancePredictionSave(self) ==
    /\ self.pk = NoPk => Len(predictions) < MaxPredictions
    /\ predictions' = save(self)
    /\ call' = [fn |-> "MaintenancePrediction.save", pk |-> SavedPk(self),
                is_active |-> self.is_active,
                others |-> ActivePredictions(predictions, self.equipment)
                               \ {self.pk}]
    /\ UNCHANGED <<equipment, seasonal, today, demand, rules>>
    /\ UNCHANGED <<payments, taken, gen>>
    /\ UNCHANGED historyVars
    /\ UNCHANGED bookingVars

InitPredictions ==
    /\ BookingIdle
    /\ PricingIdle

NextPredictions == \E self \in PredictionInstances : MaintenancePredictionSave(self)

SpecPredictions == InitPredictions /\ [][NextPredictions]_vars

----------------------------------------------------------------------------
(* bookings/models.py: Booking.generate_booking_number *)

\* the number of random suffixes of a day: 10000 in the code, scaled down
MaxSuffixes == 5

\* the values ''.join(random.choices(string.digits, k=4)) can take
Suffixes == 0..(MaxSuffixes - 1)

\* Booking.save of a booking without booking_number enters
\* generate_booking_number
generate_booking_number_enter ==
    /\ gen.pc = "idle"
    /\ gen' = [pc |-> "loop", random_part |-> Null]
    /\ UNCHANGED taken
    /\ UNCHANGED <<equipment, seasonal, today, call, demand, rules, history, job,
                   payments, predictions>>
    /\ UNCHANGED bookingVars

\* one iteration of the while True loop: draw a suffix, return the number
\* if no stored booking has it, go round again otherwise
generate_booking_number_loop(random_part) ==
    /\ gen.pc = "loop"
    /\ gen' = IF random_part \notin taken
              THEN [pc |-> "returned", booking_number |-> random_part]
              ELSE [pc |-> "loop", random_part |-> random_part]
    /\ UNCHANGED taken
    /\ UNCHANGED <<equipment, seasonal, today, call, demand, rules, history, job,
                   payments, predictions>>
    /\ UNCHANGED bookingVars

\* Booking.save: super().save() stores the booking under the number
save_booking_number ==
    /\ gen.pc = "returned"
    /\ taken' = taken \cup {gen.booking_number}
    /\ gen' = IdleGen
    /\ UNCHANGED <<equipment, seasonal, today, call, demand, rules, history, job,
                   payments, predictions>>
    /\ UNCHANGED bookingVars

InitNumber ==
    /\ BookingIdle
    /\ equipment = DefaultEquipment
    /\ seasonal = <<>>
    /\ today = 1
    /\ call = NoCall
    /\ demand = <<>>
    /\ rules = <<>>
    /\ history = <<>>
    /\ job = [j \in Jobs |-> IdleJob]
    /\ payments = <<>>
    /\ predictions = <<>>
    /\ taken \in SUBSET Suffixes
    /\ gen = IdleGen

NextNumber ==
    \/ generate_booking_number_enter
    \/ \E random_part \in Suffixes : generate_booking_number_loop(random_part)
    \/ save_booking_number

SpecNumber == InitNumber /\ [][NextNumber]_vars

\* an iteration that draws a free suffix
DrawsFree ==
    \E random_part \in Suffixes :
        generate_booking_number_loop(random_part) /\ gen'.pc = "returned"

\* the call keeps running, and random.choices does not avoid a free suffix
\* for ever
SpecNumberFair == SpecNumber /\ WF_vars(NextNumber) /\ SF_vars(DrawsFree)

----------------------------------------------------------------------------
(* Properties of the booking side *)

Active(b) == b.status \in {"confirmed", "in_progress"}

\* open-interval overlap of two rows
Overlap(a, b) == a.start_date < b.end_date /\ a.end_date > b.start_date

\* the stored bookings other than the instance itself that share its
\* equipment
OthersOnEquipment(self) ==
    {pk \in DOMAIN bookings \ {self.pk} :
        bookings[pk].equipment = self.equipment}

Called == call.fn = "check_availability"

\* C1: no two distinct bookings of the same equipment whose status is
\* confirmed or in_progress have overlapping intervals, in any state the
\* booking operations can reach.
NoOverlappingAcceptedBookings ==
    \A a, b \in DOMAIN bookings :
        (a # b /\ bookings[a].equipment = bookings[b].equipment
               /\ Active(bookings[a]) /\ Active(bookings[b]))
            => ~Overlap(bookings[a], bookings[b])

\* C2: a booking_create request that has passed check_availability saves its
\* booking as a confirmed row whatever other requests have stored since the
\* check; nothing is checked again at the insert.
CheckedRequestAlwaysSaves ==
    [][\A r \in Requests :
          (Checked(r) /\ ~Checked(r)')
              => /\ Len(bookings') = Len(bookings) + 1
                 /\ bookings'[Len(bookings')] = Row(req[r].booking)
                 /\ bookings'[Len(bookings')].status = "confirmed"]_vars

\* C2 witness: two overlapping bookings of one equipment are both stored as
\* confirmed; with creation and cancellation only this needs two requests
\* that both passed the check before either saved.
BothRacingBookingsPersisted ==
    \E a, b \in DOMAIN bookings :
        /\ a # b
        /\ bookings[a].equipment = bookings[b].equipment
        /\ bookings[a].status = "confirmed" /\ bookings[b].status = "confirmed"
        /\ bookings[a].start_date < bookings[a].end_date
        /\ bookings[b].start_date < bookings[b].end_date
        /\ Overlap(bookings[a], bookings[b])

\* C3: a booking_create whose check_availability is false saves no booking
\* and creates no owner notification: the stored bookings and the
\* notifications are the same after the request as before it.
ConflictCreatesNothing ==
    [][/\ (message' = ConflictMessage /\ message # ConflictMessage)
              => (bookings' = bookings /\ notifications' = notifications)
       /\ \A e \in EquipmentIds, iv \in Intervals :
              (booking_create(e, iv[1], iv[2])
                  /\ \E pk \in DOMAIN bookings :
                        /\ bookings[pk].equipment = e
                        /\ Active(bookings[pk])
                        /\ bookings[pk].start_date < iv[2]
                        /\ bookings[pk].end_date > iv[1])
                  => (bookings' = bookings /\ notifications' = notifications)
      ]_vars

\* C3 witness: a request was refused with the conflict error while a
\* confirmed booking is stored and nothing was notified.
ConflictSurfaced ==
    /\ message = ConflictMessage
    /\ notifications = 0
    /\ \E pk \in DOMAIN bookings : bookings[pk].status = "confirmed"

\* C4: check_availability is false exactly when some other booking of the
\* same equipment with status confirmed or in_progress has
\* start < proposed end and end > proposed start; no other status
\* conflicts, and an interval that only touches an existing one is free.
AvailabilityIsStrictOverlap ==
    Called
        => /\ call.result = FALSE
                 <=> \E pk \in OthersOnEquipment(call.self) :
                         /\ Active(bookings[pk])
                         /\ Overlap(bookings[pk], call.self)
           /\ (\A pk \in OthersOnEquipment(call.self) :
                   \/ bookings[pk].status
                          \in {"pending", "completed", "cancelled", "rejected"}
                   \/ bookings[pk].end_date <= call.self.start_date
                   \/ bookings[pk].start_date >= call.self.end_date)
                 => call.result = TRUE

\* C4 witness: an unsaved booking was found available although it starts
\* where a stored confirmed booking of the equipment ends and a stored
\* cancelled booking of the equipment overlaps it.
TouchingAndInactiveDoNotConflict ==
    /\ Called
    /\ call.self.pk = NoPk
    /\ call.result = TRUE
    /\ call.self.start_date < call.self.end_date
    /\ \E pk \in OthersOnEquipment(call.self) :
          /\ bookings[pk].status = "confirmed"
          /\ bookings[pk].start_date < bookings[pk].end_date
          /\ bookings[pk].end_date = call.self.start_date
    /\ \E pk \in OthersOnEquipment(call.self) :
          /\ bookings[pk].status = "cancelled"
          /\ bookings[pk].start_date < bookings[pk].end_date
          /\ Overlap(bookings[pk], call.self)

\* C5: called on a stored booking, check_availability leaves the booking's
\* own row out: a stored confirmed booking that no other booking conflicts
\* with is available for any new dates, its own old interval included.
OwnRecordExcluded ==
    (/\ Called
     /\ call.self.pk # NoPk
     /\ bookings[call.self.pk].status = "confirmed"
     /\ ~\E pk \in OthersOnEquipment(call.self) :
            Active(bookings[pk]) /\ Overlap(bookings[pk], call.self))
        => call.result = TRUE

\* C5 witness: a stored confirmed booking of non-zero length was found
\* available on new dates that overlap its own stored interval.
UpdateOverOwnInterval ==
    /\ Called
    /\ call.self.pk # NoPk
    /\ call.result = TRUE
    /\ bookings[call.self.pk].status = "confirmed"
    /\ bookings[call.self.pk].start_date < bookings[call.self.pk].end_date
    /\ call.self.start_date < call.self.end_date
    /\ Overlap(bookings[call.self.pk], call.self)

\* C6 as stated: a zero-duration proposed interval never conflicts, whatever
\* is stored for the equipment.
ZeroDurationNeverConflicts ==
    (Called /\ call.self.start_date = call.self.end_date)
        => call.result = TRUE

\* C6 amended: a zero-duration proposed interval at instant t conflicts
\* exactly with the other confirmed or in_progress bookings of the equipment
\* that strictly contain t (start < t < end); one that starts or ends at t
\* does not conflict.
ZeroDurationConflictsInside ==
    (Called /\ call.self.start_date = call.self.end_date)
        => (call.result = FALSE
               <=> \E pk \in OthersOnEquipment(call.self) :
                       /\ Active(bookings[pk])
                       /\ bookings[pk].start_date < call.self.start_date
                       /\ call.self.start_date < bookings[pk].end_date)

\* C6 witness: a zero-duration interval was found available at the instant
\* a stored confirmed booking of the equipment starts.
ZeroDurationAtEdge ==
    /\ Called
    /\ call.self.start_date = call.self.end_date
    /\ call.result = TRUE
    /\ \E pk \in OthersOnEquipment(call.self) :
          /\ bookings[pk].status = "confirmed"
          /\ bookings[pk].start_date = call.self.start_date
          /\ bookings[pk].start_date < bookings[pk].end_date

\* C7: cancelled and rejected are terminal: once a booking's status is
\* cancelled or rejected no later operation changes it.
CancelledRejectedTerminal ==
    [][\A pk \in DOMAIN bookings :
          bookings[pk].status \in {"cancelled", "rejected"}
              => bookings'[pk].status = bookings[pk].status]_vars

----------------------------------------------------------------------------
(* Properties of the price resolvers *)

PriceCalls == {"get_current_price", "calculate_rate"}
LookupCalls == {"active_seasonal_rule", "calculate_seasonal_multiplier"}

\* C8: with no active seasonal rule, get_current_price('weekly') is
\* weekly_rate for every weekly_rate that is set (non-null) and
\* daily_rate * 7 only when it is unset; the same for 'monthly' with
\* monthly_rate and daily_rate * 30.
SetRateWinsOverDerived ==
    (call.fn = "get_current_price" /\ call.rule = NoRule)
        => /\ call.rate_type = "weekly"
                => call.result.value =
                       IF call.self.weekly_rate # Null
                       THEN Exact(call.self.weekly_rate)
                       ELSE Exact(call.self.daily_rate * 7)
           /\ call.rate_type = "monthly"
                => call.result.value =
                       IF call.self.monthly_rate # Null
                       THEN Exact(call.self.monthly_rate)
                       ELSE Exact(call.self.daily_rate * 30)

ActiveRowsOfCall ==
    {i \in DOMAIN seasonal :
        seasonal[i].equipment_type = call.equipment_type /\ seasonal[i].is_active}

\* C10: the seasonal lookup for a type and date gives no rule when the date
\* is strictly before start_date or strictly after end_date of every active
\* row, gives a matching active row when the date equals the start_date or
\* the end_date of one, and never gives an inactive row.
SeasonalLookupInclusive ==
    call.fn \in LookupCalls
        => /\ (\A i \in ActiveRowsOfCall :
                  call.date < seasonal[i].start_date
                      \/ call.date > seasonal[i].end_date)
                 => call.rule = NoRule
           /\ (\E i \in ActiveRowsOfCall :
                  call.date = seasonal[i].start_date
                      \/ call.date = seasonal[i].end_date)
                 => call.rule # NoRule
           /\ call.rule # NoRule
                 => /\ seasonal[call.rule].is_active
                    /\ seasonal[call.rule].equipment_type = call.equipment_type
                    /\ is_active_for_date(seasonal[call.rule], call.date)
           /\ call.fn = "calculate_seasonal_multiplier"
                 => call.result =
                        IF call.rule = NoRule
                        THEN [type |-> "float", value |-> 100]
                        ELSE [type |-> "Decimal",
                              value |-> seasonal[call.rule].daily_multiplier]

\* C10 witness: a lookup on the last day of an active row that started
\* earlier returned that row, while an inactive row of the same type
\* covering the date is stored too.
LookupOnEndDate ==
    /\ call.fn = "calculate_seasonal_multiplier"
    /\ call.rule # NoRule
    /\ call.date = seasonal[call.rule].end_date
    /\ seasonal[call.rule].start_date < call.date
    /\ \E i \in DOMAIN seasonal :
          /\ ~seasonal[i].is_active
          /\ seasonal[i].equipment_type = call.equipment_type
          /\ is_active_for_date(seasonal[i], call.date)

\* C11: when the active seasonal row has a fixed rate set for the requested
\* rate type (fixed_hourly_rate for hourly, fixed_daily_rate for daily),
\* get_current_price returns exactly that fixed rate, with no seasonal
\* multiplier applied on top of it.
FixedSeasonalRateIsPrice ==
    (call.fn = "get_current_price" /\ call.rule # NoRule)
        => /\ (call.rate_type = "hourly"
                  /\ seasonal[call.rule].fixed_hourly_rate # Null)
                 => call.result.value = Exact(seasonal[call.rule].fixed_hourly_rate)
           /\ (call.rate_type = "daily"
                  /\ seasonal[call.rule].fixed_daily_rate # Null)
                 => call.result.value = Exact(seasonal[call.rule].fixed_daily_rate)

----------------------------------------------------------------------------
(* Properties of the pricing pipeline *)

DemandCalls == {"calculate_demand_multiplier", "calculate_demand_level"}

\* C12: with an active DemandPricing config for the type, the demand
\* multiplier follows the booking count in this order: count <= low
\* threshold gives the low multiplier, otherwise count >= high threshold
\* gives the high multiplier, otherwise the normal multiplier; a count equal
\* to the high threshold and above the low one gives the high multiplier.
DemandTiersInOrder ==
    (call.fn \in DemandCalls /\ call.config # NoRule)
        => LET config == demand[call.config] IN
           /\ call.booking_count <= config.low_demand_threshold
                 => call.result = Dec(config.low_demand_multiplier, 2)
           /\ (call.booking_count > config.low_demand_threshold
                  /\ call.booking_count >= config.high_demand_threshold)
                 => call.result = Dec(config.high_demand_multiplier, 2)
           /\ (call.booking_count > config.low_demand_threshold
                  /\ call.booking_count < config.high_demand_threshold)
                 => call.result = Dec(config.normal_demand_multiplier, 2)
           /\ call.fn = "calculate_demand_multiplier"
                 => /\ config.is_active
                    /\ config.equipment_type = call.equipment_type

\* C12 witness: calculate_demand_multiplier found a count equal to the high
\* threshold and above the low one, and returned the high multiplier, which
\* differs from the normal one.
CountEqualsHighThreshold ==
    /\ call.fn = "calculate_demand_multiplier"
    /\ call.config # NoRule
    /\ call.booking_count = demand[call.config].high_demand_threshold
    /\ call.booking_count > demand[call.config].low_demand_threshold
    /\ call.result = Dec(demand[call.config].high_demand_multiplier, 2)
    /\ demand[call.config].high_demand_multiplier
           # demand[call.config].normal_demand_multiplier

\* C13: the booking count of the pipeline's demand multiplier covers the
\* window of the config's demand_calculation_days, so that the pipeline's
\* multiplier is config.get_multiplier(config.calculate_demand_level(date))
\* for every configured window length.
PipelineWindowIsConfigured ==
    (call.fn = "calculate_demand_multiplier" /\ call.config # NoRule)
        => /\ call.booking_count =
                  BookingCount(call.equipment_type, call.date,
                               demand[call.config].demand_calculation_days)
           /\ call.result =
                  get_multiplier(demand[call.config],
                      calculate_demand_level(demand[call.config], call.date))

\* the active scoped rules of an apply_pricing_rules call that are
\* applicable on its date
ApplicableRulesOfCall ==
    {i \in ScopedRules(call.equipment) :
        is_applicable(rules[i], call.equipment, call.date, Null, NoLocation)}

\* C14: apply_pricing_rules returns the multiplier of a rule of the highest
\* priority among the active scoped rules that are applicable on the date,
\* and the neutral 1.0 only when no active scoped rule is applicable.
HighestApplicableRuleApplied ==
    call.fn = "apply_pricing_rules"
        => IF ApplicableRulesOfCall = {}
           THEN call.result = FloatOne
           ELSE \E i \in ApplicableRulesOfCall :
                   /\ \A j \in ApplicableRulesOfCall :
                          rules[i].priority >= rules[j].priority
                   /\ call.result = Dec(rules[i].daily_multiplier, 2)

\* C15: is_applicable is true exactly when every constraint that is set
\* (not None, not an empty list) on the rule holds; the time and location
\* constraints are evaluated only when the argument is supplied.
ApplicableIffEverySetConstraintHolds ==
    call.fn = "is_applicable"
        => LET self == call.self
               type == equipment[call.equipment].equipment_type
           IN  call.result =
                 (/\ self.equipment # Null => self.equipment = call.equipment
                  /\ self.equipment_type # Null => self.equipment_type = type
                  /\ self.start_date # Null => self.start_date <= call.date
                  /\ self.end_date # Null => call.date <= self.end_date
                  /\ (call.time # Null /\ self.start_time # Null)
                        => self.start_time <= call.time
                  /\ (call.time # Null /\ self.end_time # Null)
                        => call.time <= self.end_time
                  /\ self.days_of_week # {}
                        => weekday(call.date) \in self.days_of_week
                  /\ (call.location.given /\ self.latitude_min # Null)
                        => self.latitude_min <= call.location.lat
                  /\ (call.location.given /\ self.latitude_max # Null)
                        => call.location.lat <= self.latitude_max
                  /\ (call.location.given /\ self.longitude_min # Null)
                        => self.longitude_min <= call.location.lng
                  /\ (call.location.given /\ self.longitude_max # Null)
                        => call.location.lng <= self.longitude_max)

\* the rule apply_pricing_rules selected in a calculate_equipment_pricing
\* call: the first row, when it is applicable on the date
RuleSelectedInCall ==
    /\ call.rule # NoRule
    /\ is_applicable(rules[call.rule], call.equipment, call.date, Null, NoLocation)

\* C16: in the price calculate_equipment_pricing computes, a selected rule
\* with a fixed daily rate contributes that fixed rate in place of the base
\* rate and its multiplier is bypassed; the rule's multiplier is used only
\* when it has no fixed rate, and 1.0 when no rule is selected.
RuleFixedRateBypassesMultiplier ==
    (call.fn = "calculate_equipment_pricing" /\ call.result.outcome = "returned")
        => /\ (RuleSelectedInCall /\ rules[call.rule].fixed_daily_rate # Null)
                 => call.result.adjusted_daily_rate =
                        Mul(Mul(Dec(rules[call.rule].fixed_daily_rate, 2),
                                call.result.seasonal_multiplier),
                            call.result.demand_multiplier)
           /\ (RuleSelectedInCall /\ rules[call.rule].fixed_daily_rate = Null)
                 => call.result.rule_multiplier =
                        Dec(rules[call.rule].daily_multiplier, 2)
           /\ ~RuleSelectedInCall => call.result.rule_multiplier = FloatOne

\* a factor of the price: the multiplier a resolver found, or 1
Factor(m) == IF m.type = "float" THEN Dec(1, 0) ELSE m

\* C17: calculate_equipment_pricing returns, as a result and not as an
\* error, an adjusted daily rate equal to daily_rate x seasonal x demand x
\* rule multiplier, each factor being the multiplier its resolver found or 1
\* when that source has no match.
AdjustedRateIsProduct ==
    (call.fn = "calculate_equipment_pricing" /\ call.equipment \in DOMAIN equipment)
        => LET equip == equipment[call.equipment]
               seasonal_multiplier ==
                   Num(calculate_seasonal_multiplier(call.seasonal_pricing))
               demand_multiplier == calculate_demand_multiplier(equip, call.date)
               rule_multiplier ==
                   apply_pricing_rules(call.equipment, call.rule, call.date)
           IN  /\ call.result.outcome = "returned"
               /\ call.result.adjusted_daily_rate =
                      Mul(Mul(Mul(Dec(equip.daily_rate, 2),
                                  Factor(seasonal_multiplier)),
                              Factor(demand_multiplier)),
                          Factor(rule_multiplier))

\* C18: for an equipment with no active seasonal row on the date, no active
\* demand config and no active pricing rule, calculate_equipment_pricing
\* does not error: the final multiplier is 1 and the adjusted daily rate is
\* the daily rate.
NoConfigurationGivesBaseRate ==
    (/\ call.fn = "calculate_equipment_pricing"
     /\ call.equipment \in DOMAIN equipment
     /\ call.seasonal_pricing = NoRule
     /\ call.config = NoRule
     /\ ScopedRules(call.equipment) = {})
        => /\ call.result.outcome = "returned"
           /\ Factor(call.result.final_multiplier) = Dec(1, 0)
           /\ call.result.adjusted_daily_rate =
                  Dec(equipment[call.equipment].daily_rate, 2)

----------------------------------------------------------------------------
(* Properties of the pricing history *)

\* C19: after the pricing update has run twice in sequence on unchanged
\* data, the table is the one the first run left (the same adjusted rate
\* both times) and holds exactly one row for every active equipment and the
\* date: the second run overwrote the row and inserted no duplicate.
SecondRunOverwrites ==
    (call.fn = "update_dynamic_pricing" /\ call.runs = 2)
        => /\ history = call.first
           /\ \A e \in DOMAIN equipment :
                  equipment[e].is_active
                      => Cardinality(HistoryMatches(history, e, today)) = 1

\* C20: under every interleaving of concurrent update_pricing_history calls
\* for one equipment and date, at most one PricingHistory row exists for
\* the pair and it holds the values of the last writer.
OneRowOfLastWriter ==
    /\ \A e \in EquipmentIds : Cardinality(HistoryMatches(history, e, today)) <= 1
    /\ call.fn = "update_pricing_history"
          => \A pk \in HistoryMatches(history, call.equipment, today) :
                 history[pk].multiplier = Quantize(call.multiplier, 2)

\* C21: after update_dynamic_pricing returns, every active equipment has a
\* PricingHistory row for today holding the multiplier and the adjusted
\* rate computed in that run, each source that matches nothing counting as
\* the factor 1.
EveryActiveEquipmentHasRow ==
    call.fn = "update_dynamic_pricing"
        => \A e \in DOMAIN equipment :
               equipment[e].is_active
                   => \E pk \in HistoryMatches(history, e, today),
                         seasonal_pricing \in SeasonalFirst(equipment[e].equipment_type,
                                                           today),
                         rule \in RuleFirst(e) :
                          LET multiplier ==
                                  Mul(Mul(Factor(calculate_demand_multiplier(
                                                     equipment[e], today)),
                                          Factor(Num(calculate_seasonal_multiplier(
                                                         seasonal_pricing)))),
                                      Factor(apply_pricing_rules(e, rule, today)))
                          IN  /\ history[pk].multiplier = Quantize(multiplier, 2)
                              /\ history[pk].adjusted_rate =
                                     Quantize(Mul(Dec(equipment[e].daily_rate, 2),
                                                  multiplier), 2)

\* C22: the demand_level of a PricingHistory row is the demand level the
\* active DemandPricing config of the equipment's type computes for the
\* row's effective date; checked when update_demand_pricing has just
\* written the rows.
DemandLevelIsSnapshot ==
    call.fn = "update_demand_pricing"
        => \A pk \in DOMAIN history, i \in DOMAIN demand :
               (/\ demand[i].is_active
                /\ demand[i].equipment_type =
                       equipment[history[pk].equipment].equipment_type)
                   => history[pk].demand_level =
                          calculate_demand_level(demand[i],
                                                 history[pk].effective_date)

\* C23: update_pricing_history never propagates an error to its caller: a
\* call whose try block fails returns False and leaves the table as it was,
\* any other call returns True, and the tasks that loop over it run to
\* their end.
UpdatePricingHistoryNeverRaises ==
    [][/\ call'.fn = "update_pricing_history"
          => /\ ~call'.raised
             /\ call'.failed => (call'.result = FALSE /\ history' = history)
             /\ ~call'.failed => call'.result = TRUE
       /\ call'.fn \in {"update_demand_pricing", "apply_seasonal_pricing"}
          => call'.outcome = "updated"]_vars

\* C23 witness: a call that multiplied the Decimal daily_rate by a float
\* returned False to its caller.
FailedCallReturnedFalse ==
    /\ call.fn = "update_pricing_history"
    /\ call.multiplier = FloatOne
    /\ call.failed
    /\ call.result = FALSE

\* C26: every PricingHistory row satisfies adjusted_rate = base_rate x
\* multiplier in every reachable state, also after the row was overwritten
\* following a change of the equipment's daily_rate.
AdjustedRateIsBaseTimesMultiplier ==
    \A pk \in DOMAIN history :
        history[pk].adjusted_rate * 100 = history[pk].base_rate * history[pk].multiplier

----------------------------------------------------------------------------
(* Properties of the seasonal lookup order and of the two price paths *)

\* C24 as stated: when several active SeasonalPricing rows of one type cover
\* the date, every lookup site applies the earliest-created one, the row of
\* the least pk.
SeasonalFirstIsEarliestCreated ==
    (call.fn \in LookupCalls /\ SeasonalMatches(call.equipment_type, call.date) # {})
        => /\ call.rule \in SeasonalMatches(call.equipment_type, call.date)
           /\ \A j \in SeasonalMatches(call.equipment_type, call.date) :
                  call.rule <= j

\* C24 amended: when several active SeasonalPricing rows of one type cover
\* the date, every lookup site applies a row of the earliest start_date,
\* whatever the creation order; which one among rows of equal start_date is
\* not fixed.
SeasonalFirstIsEarliestStart ==
    (call.fn \in LookupCalls /\ SeasonalMatches(call.equipment_type, call.date) # {})
        => /\ call.rule \in SeasonalMatches(call.equipment_type, call.date)
           /\ \A j \in SeasonalMatches(call.equipment_type, call.date) :
                  seasonal[call.rule].start_date <= seasonal[j].start_date

\* C24 witness: a lookup returned the row created second while the row
\* created first also covers the date and starts later.
LaterCreatedRowApplied ==
    /\ call.fn \in LookupCalls
    /\ call.rule = 2
    /\ 1 \in SeasonalMatches(call.equipment_type, call.date)
    /\ seasonal[1].start_date > seasonal[2].start_date

\* C25: get_current_price('daily') and the adjusted daily rate of
\* calculate_equipment_pricing are not the same computation: when the
\* pipeline returns a price it is daily_rate x seasonal x demand x rule
\* multiplier while get_current_price is (fixed_daily_rate or daily_rate) x
\* seasonal multiplier, so the two relate by
\*   pipeline x (fixed_daily_rate or daily_rate) =
\*       current x demand multiplier x rule multiplier x daily_rate
\* and differ for the configurations of the witness.
PricePathsRelation ==
    (call.fn = "price_both_ways" /\ call.pipeline.outcome = "returned")
        => LET self == equipment[call.equipment]
               base_price == Or(seasonal[call.active_rule].fixed_daily_rate,
                                self.daily_rate)
           IN  /\ call.active_rule # NoRule
               /\ call.current.outcome = "returned"
               /\ Mul(call.pipeline.adjusted_daily_rate, Dec(base_price, 2)) =
                      Mul(Mul(Mul(Dec(call.current.value, 4),
                                  call.pipeline.demand_multiplier),
                              call.pipeline.rule_multiplier),
                          Dec(self.daily_rate, 2))

\* C25 witness: on one configuration both computations returned a daily
\* price and the two prices differ.
PricePathsDiffer ==
    /\ call.fn = "price_both_ways"
    /\ call.pipeline.outcome = "returned"
    /\ call.current.outcome = "returned"
    /\ Dec(call.current.value, 4) # call.pipeline.adjusted_daily_rate

----------------------------------------------------------------------------
(* Properties of the release of a slot *)

\* the stored bookings of the equipment whose interval overlaps the
\* proposed one
OverlappingStored(proposal) ==
    {pk \in DOMAIN bookings :
        /\ bookings[pk].equipment = proposal.equipment
        /\ Overlap(bookings[pk], proposal)}

\* C27: cancelling or rejecting a booking releases its slot: right after
\* Booking.cancel or Booking.reject on booking X, check_availability is
\* true for every new booking of the same equipment whose interval overlaps
\* X and no other stored booking, and a booking_create for an interval that
\* overlaps only cancelled or rejected bookings saves the booking.
CancelOrRejectReleasesSlot ==
    [][/\ \A pk \in DOMAIN bookings :
              (\/ booking_cancel(pk) /\ message' = CancelledMessage
               \/ booking_reject(pk))
                  => \A proposal \in Proposals :
                         OverlappingStored(proposal) = {pk}
                             => check_availability(proposal)'
       /\ \A e \in EquipmentIds, iv \in Intervals :
              LET proposal == NewBooking(e, iv[1], iv[2])
              IN  (/\ booking_create(e, iv[1], iv[2])
                   /\ OverlappingStored(proposal) # {}
                   /\ \A pk \in OverlappingStored(proposal) :
                          bookings[pk].status \in {"cancelled", "rejected"})
                      => /\ bookings' = Append(bookings, Row(proposal))
                         /\ message' = CreatedMessage]_vars

\* C27 witness: a booking was created over the interval of a cancelled or
\* rejected booking of the same equipment, the only stored booking it
\* overlaps.
ReleasedSlotRebooked ==
    /\ message = CreatedMessage
    /\ Len(bookings) >= 2
    /\ LET new == Len(bookings)
       IN  \E pk \in 1..(new - 1) :
               /\ bookings[pk].status \in {"cancelled", "rejected"}
               /\ OverlappingStored(bookings[new]) = {pk, new}

----------------------------------------------------------------------------
(* Properties of the payment callback *)

\* C28: handle_payment_callback for an existing payment with ResultCode '0'
\* ends with the payment stored as completed and its booking stored as
\* confirmed, and reports success; with any other ResultCode the payment is
\* stored as failed and the booking's status is left unchanged.
CallbackSettlesPayment ==
    (call.fn = "handle_payment_callback" /\ call.payment # 0)
        => LET payment == payments[call.payment]
           IN  IF call.result_code = "0"
               THEN /\ payment.status = "completed"
                    /\ bookings[payment.booking].status = "confirmed"
                    /\ call.result.success
               ELSE /\ payment.status = "failed"
                    /\ bookings[payment.booking].status = call.booking_status

----------------------------------------------------------------------------
(* Properties of the maintenance predictions *)

\* C29: after any sequence of sequential MaintenancePrediction.save calls,
\* each equipment has at most one prediction with is_active true, and a
\* prediction saved with is_active true is, right after its save, the only
\* active prediction of its equipment.
AtMostOneActivePrediction ==
    /\ \A e \in EquipmentIds : Cardinality(ActivePredictions(predictions, e)) <= 1
    /\ (call.fn = "MaintenancePrediction.save" /\ call.is_active)
          => ActivePredictions(predictions, predictions[call.pk].equipment) =
                 {call.pk}

\* C29 witness: a prediction was saved with is_active true while another
\* prediction of its equipment was the active one.
ActivePredictionReplaced ==
    /\ call.fn = "MaintenancePrediction.save"
    /\ call.is_active
    /\ call.others # {}
    /\ \A pk \in call.others : ~predictions[pk].is_active

----------------------------------------------------------------------------
(* Properties of the booking number *)

\* C30: Booking.generate_booking_number always terminates and returns a
\* number that no stored booking uses, for every set of stored bookings,
\* also when every suffix of the current day is taken.
GenerateBookingNumberTerminates ==
    /\ [](gen.pc = "returned" => gen.booking_number \notin taken)
    /\ (gen.pc = "loop") ~> (gen.pc = "returned")

====
